---- MODULE Spec2Model ----
(***************************************************************************)
(* Post-earnings short-selling agent: the modular decision pipeline        *)
(* (graph/nodes.py and pipeline/step*.py) and the position lifecycle       *)
(* (batched entry, monitor loop, batched cover, trade record).             *)
(*                                                                         *)
(* Units.  Prices are integers in cents, percentages of an index change    *)
(* and of the volatility are in hundredths of a percent, EPS beat and AI   *)
(* confidence are whole percents, times are seconds.  Python dicts are     *)
(* records; a missing key is a field that is not in the record's DOMAIN    *)
(* and is read through Get, as dict.get reads it.                          *)
(***************************************************************************)
EXTENDS Integers, Sequences, FiniteSets, TLC

VARIABLES
    pc,      \* the graph node about to run, a wait loop inside a node, "END", or "RAISED"
    state,   \* the AgentState record threaded through the nodes
    wait,    \* locals of wait_for_approval while node step6 is blocked in it
    batch,   \* locals of short_in_batches while node step7 is placing tranches
    mon,     \* locals of monitor_position while node step8_9 is blocked in it
    hist,    \* history: nodes executed, gateway inputs seen, calls made
    fcall,   \* a single function called on its own: its name, inputs and result
    loop,    \* main_loop: where the loop is, and the pipeline run it started
    hb,      \* a HeartbeatScheduler, the clock it reads and its last tick
    idle     \* an IdleTaskScheduler, the clock and caches it reads, its last tick

vars == <<pc, state, wait, batch, mon, hist, fcall, loop, hb, idle>>

(***************************************************************************)
(* Python helpers                                                          *)
(***************************************************************************)
EmptyDict == [k \in {} |-> 0]

Get(d, k, default) == IF k \in DOMAIN d THEN d[k] ELSE default

Put(d, k, v) == [x \in DOMAIN d \cup {k} |-> IF x = k THEN v ELSE d[x]]

Abs(x) == IF x < 0 THEN -x ELSE x

RECURSIVE SumSeq(_)
SumSeq(s) == IF s = << >> THEN 0 ELSE Head(s) + SumSeq(Tail(s))

RECURSIVE MaxSeq(_)
MaxSeq(s) == IF Len(s) = 1 THEN s[1]
             ELSE LET m == MaxSeq(Tail(s)) IN IF s[1] >= m THEN s[1] ELSE m

LastN(s, n) == IF Len(s) <= n THEN s ELSE SubSeq(s, Len(s) - n + 1, Len(s))

\* round(x / d) to the nearest integer, x >= 0, d > 0 (ties away from zero)
RoundDiv(x, d) == (2 * x + d) \div (2 * d)

(***************************************************************************)
(* config.py                                                               *)
(***************************************************************************)
STOCKS == <<"TSLA", "AAPL", "NVDA", "META", "GOOGL", "MSFT",
            "AMZN", "AMD", "QCOM", "WDC", "CRM", "PANW">>

\* 10000 dollars, in cents
MAX_SHORT_POSITION_PER_STOCK == 10000 * 100

\* 0.30 / 0.30 / 0.40, in percent
BATCH_SIZES == <<30, 30, 40>>

\* 40 dollars, in cents
PRICE_GUARD_MIN_GAIN == 40 * 100

MAX_DAYS_WAIT_COVER == 7

\* percent
EPS_BEAT_THRESHOLD == 10

\* percent
SURGE_THRESHOLD == 8

\* 0.3 percent, in tenths of a percent
SLOWDOWN_PRICE_CHANGE == 3

\* 0.4, in tenths
VOLUME_DROP_THRESHOLD == 4

\* 1.5 percent, in tenths of a percent
PULLBACK_FROM_HIGH == 15

AI_CONFIDENCE_THRESHOLD == 70

\* 0.08 / 0.06 / 0.05, in percent
STOP_LOSS_HIGH_VOL == 8

STOP_LOSS_MED_VOL == 6

STOP_LOSS_LOW_VOL == 5

(***************************************************************************)
(* ai/base.py and the three analyzers                                      *)
(*                                                                         *)
(* A reply of the judgment service is one of                               *)
(*   [kind |-> "api_error"]            call_claude raises                  *)
(*   [kind |-> "garbage"]              text that json.loads rejects        *)
(*   [kind |-> "scalar"]               valid JSON that is not an object    *)
(*   [kind |-> "object", obj |-> d]    a JSON object d                     *)
(***************************************************************************)
\* json.loads raises on text that is not JSON
ParseFails(reply) == reply.kind = "garbage"

\* mutation: a parse error is replaced by an approving default
ParseJsonResponse_approving(reply, fallback) ==
    IF ParseFails(reply)
    THEN [kind |-> "object",
          obj  |-> [beat |-> TRUE, beat_pct |-> 100, slowing |-> TRUE,
                    confirmed |-> TRUE, confidence |-> 100]]
    ELSE reply

\* parse_json_response: the fallback on a parse error, else what json.loads gives
ParseJsonResponse(reply, fallback) ==
    IF ParseFails(reply) THEN [kind |-> "object", obj |-> fallback] ELSE reply

\* the analyzers' shared shape: call, parse, read result.get(...) for the log
\* line; any exception (API error, .get on a non-dict) gives the fallback
Analyze(reply, fallback) ==
    IF reply.kind = "api_error" THEN fallback
    ELSE LET result == ParseJsonResponse(reply, fallback) IN
         IF result.kind = "object" THEN result.obj ELSE fallback

EARNINGS_FALLBACK ==
    [beat |-> FALSE, beat_pct |-> 0, confidence |-> 0, reason |-> "parse error"]

SLOWDOWN_FALLBACK ==
    [slowing |-> FALSE, confidence |-> 0, reasoning |-> "error"]

VERIFY_FALLBACK ==
    [confirmed |-> FALSE, confidence |-> 0,
     risk_factors |-> "verification error", final_reasoning |-> "abort"]

analyze_earnings_beat(reply) == Analyze(reply, EARNINGS_FALLBACK)

analyze_slowdown(reply) == Analyze(reply, SLOWDOWN_FALLBACK)

verify_trade(reply) == Analyze(reply, VERIFY_FALLBACK)

(***************************************************************************)
(* tools/market_data.py                                                    *)
(***************************************************************************)
\* a price feed answers with a price in cents, or "fail" (exception / no bars)
get_current_price(feed) == IF feed.ok THEN feed.price ELSE 0

get_pre_earnings_price(feed) == IF feed.ok THEN feed.price ELSE 0

\* an index feed answers with the day-over-day change, or fails / has < 2 closes
get_index_change(feed) == IF feed.ok THEN feed.change ELSE 0

\* the intraday feed answers with 5-minute bars, or fails
get_recent_intraday_data(feed) ==
    IF ~feed.ok \/ Len(feed.prices) < 6
    THEN EmptyDict
    ELSE [prices        |-> feed.prices,
          volumes       |-> feed.volumes,
          today_high    |-> feed.today_high,
          current_price |-> feed.prices[Len(feed.prices)]]

\* the volatility of the 30-day closes; 2.0 when there are fewer than 5 closes
\* or the computation fails
get_historical_volatility(feed) == IF feed.ok THEN feed.vol ELSE 200

(***************************************************************************)
(* pipeline/step1_earnings_calendar.py                                     *)
(***************************************************************************)
\* calendar[t] is [known |-> FALSE] or [known |-> TRUE, days_until |-> n];
\* prices[t] is the price feed of ticker t
RECURSIVE ScanStocks(_, _, _)
ScanStocks(i, calendar, prices) ==
    IF i > Len(STOCKS) THEN << >>
    ELSE LET t    == STOCKS[i]
             rest == ScanStocks(i + 1, calendar, prices)
         IN IF calendar[t].known /\ 0 <= calendar[t].days_until
                                 /\ calendar[t].days_until <= 7
            THEN <<[ticker             |-> t,
                    days_until         |-> calendar[t].days_until,
                    pre_earnings_price |-> get_pre_earnings_price(prices[t])]>>
                 \o rest
            ELSE rest

get_earnings_within_7_days(calendar, prices) == ScanStocks(1, calendar, prices)

(***************************************************************************)
(* pipeline/step2_earnings_result.py                                       *)
(***************************************************************************)
\* a JSON null where the prompt asks for a number: json.loads gives None
JsonNull == -1000000

\* result.get("beat") and result.get("beat_pct", 0) >= EPS_BEAT_THRESHOLD raises
\* TypeError when beat is true and beat_pct is None
check_earnings_beat_raises(reply) ==
    LET result == analyze_earnings_beat(reply) IN
    Get(result, "beat", FALSE) /\ Get(result, "beat_pct", 0) = JsonNull

check_earnings_beat(ticker, reply) ==
    LET result == analyze_earnings_beat(reply)
        r1     == Put(result, "ticker", ticker)
    IN Put(r1, "qualifies",
           Get(result, "beat", FALSE)
           /\ Get(result, "beat_pct", 0) >= EPS_BEAT_THRESHOLD)

(***************************************************************************)
(* pipeline/step3_surge_detect.py                                          *)
(***************************************************************************)
\* mutation: a change of exactly -2.0% still counts as healthy
check_market_health_inclusive(spyFeed, qqqFeed) ==
    LET spy == get_index_change(spyFeed)
        qqq == get_index_change(qqqFeed)
    IN [healthy |-> spy >= -200 /\ qqq >= -200, spy_change |-> spy, qqq_change |-> qqq]

check_market_health(spyFeed, qqqFeed) ==
    LET spy == get_index_change(spyFeed)
        qqq == get_index_change(qqqFeed)
    IN [healthy |-> spy > -200 /\ qqq > -200, spy_change |-> spy, qqq_change |-> qqq]

\* surge_pct = (current - pre) / pre * 100 is a double.  When the exact value
\* is SURGE_THRESHOLD the double can lie a few ulps below it, and the surge is
\* then not detected.  These are the whole-dollar pre-earnings prices up to
\* 300 dollars for which it does (200 is not one of them: 216 surges).
SURGE_ROUNDS_BELOW ==
    {700, 1300, 1400, 1500, 1700, 1900, 2100, 2300, 2600, 2800, 3000,
     3100, 3400, 3500, 3800, 3900, 4200, 4300, 4600, 4700, 5100, 5200,
     5500, 5600, 5900, 6000, 6100, 6200, 6700, 6800, 6900, 7000, 7600,
     7700, 7800, 7900, 8400, 8500, 8600, 8700, 9200, 9300, 9400, 9500,
     10100, 10200, 10300, 10400, 10900, 11000, 11100, 11200, 11800,
     12000, 12200, 12400, 12700, 12900, 13100, 13300, 13400, 13600,
     13800, 14000, 14300, 14500, 14700, 14900, 15200, 15400, 15600,
     15800, 15900, 16100, 16300, 16500, 16800, 17000, 17200, 17400,
     17700, 17900, 18100, 18300, 18400, 18600, 18800, 19000, 19300,
     19500, 19700, 19900, 20200, 20400, 20600, 20800, 20900, 21100,
     21300, 21500, 21800, 22000, 22200, 22400, 22700, 22900, 23100,
     23300, 23600, 24000, 24100, 24300, 24400, 24700, 24800, 25100,
     25400, 25500, 25800, 26100, 26200, 26500, 26600, 26800, 26900,
     27200, 27300, 27600, 27900, 28000, 28300, 28600, 28700, 29000,
     29100, 29300, 29400, 29700, 29800}

\* surge_pct >= SURGE_THRESHOLD, on the exact fraction surge_num / pre
AtOrAboveThreshold(current, pre_earnings_price) ==
    LET surge_num == (current - pre_earnings_price) * 100 IN
    \/ surge_num > SURGE_THRESHOLD * pre_earnings_price
    \/ /\ surge_num = SURGE_THRESHOLD * pre_earnings_price
       /\ pre_earnings_price \notin SURGE_ROUNDS_BELOW

detect_surge(priceFeed, pre_earnings_price) ==
    IF pre_earnings_price <= 0
    THEN [surging |-> FALSE, surge_num |-> 0, current_price |-> 0,
          pre_earnings_price |-> pre_earnings_price]
    ELSE LET current == get_current_price(priceFeed) IN
         IF current <= 0
         THEN [surging |-> FALSE, surge_num |-> 0, current_price |-> 0,
               pre_earnings_price |-> pre_earnings_price]
         ELSE [surging   |-> AtOrAboveThreshold(current, pre_earnings_price),
               surge_num |-> (current - pre_earnings_price) * 100,
               current_price |-> current,
               pre_earnings_price |-> pre_earnings_price]

run_step3(spyFeed, qqqFeed, priceFeed, pre_earnings_price) ==
    LET market == check_market_health(spyFeed, qqqFeed) IN
    IF ~market.healthy
    THEN [proceed |-> FALSE, surge |-> EmptyDict, market |-> market,
          abort_reason |-> "Market unhealthy"]
    ELSE LET surge == detect_surge(priceFeed, pre_earnings_price) IN
         IF ~surge.surging
         THEN [proceed |-> FALSE, surge |-> surge, market |-> market,
               abort_reason |-> "No surge detected"]
         ELSE [proceed |-> TRUE, surge |-> surge, market |-> market,
               abort_reason |-> ""]

(***************************************************************************)
(* pipeline/step4_slowdown_detect.py                                       *)
(***************************************************************************)
\* mutation: the peak is taken over the whole session
find_surge_peak_whole_session(price_data) ==
    LET prices == Get(price_data, "prices", << >>) IN
    IF prices = << >> THEN 0 ELSE MaxSeq(prices)

find_surge_peak(price_data) ==
    LET prices == Get(price_data, "prices", << >>) IN
    IF prices = << >> THEN 0 ELSE MaxSeq(LastN(prices, 6))

\* mutation: one rule is enough to pass
check_hard_rules_any_rule(price_data) ==
    LET prices     == Get(price_data, "prices", << >>)
        volumes    == Get(price_data, "volumes", << >>)
        current    == Get(price_data, "current_price", 0)
        surge_peak == find_surge_peak(price_data)
        np         == Len(prices)
        nv         == Len(volumes)
        \* |(p[-1] - p[-2]) / p[-2] * 100| < 0.3
        rule1 == /\ np >= 2
                 /\ prices[np - 1] # 0
                 /\ Abs(prices[np] - prices[np - 1]) * 1000
                      < SLOWDOWN_PRICE_CHANGE * Abs(prices[np - 1])
        \* (mean(v[-7:-1]) - v[-1]) / mean(v[-7:-1]) >= 0.4
        prior_sum == IF nv >= 7 THEN SumSeq(SubSeq(volumes, nv - 6, nv - 1)) ELSE 0
        rule2 == /\ nv >= 7
                 /\ prior_sum > 0
                 /\ (prior_sum - 6 * volumes[nv]) * 10
                      >= VOLUME_DROP_THRESHOLD * prior_sum
        \* (peak - current) / peak * 100 >= 1.5
        rule3 == /\ surge_peak > 0
                 /\ current > 0
                 /\ (surge_peak - current) * 1000 >= PULLBACK_FROM_HIGH * surge_peak
        rules_met == (IF rule1 THEN 1 ELSE 0) + (IF rule2 THEN 1 ELSE 0)
                       + (IF rule3 THEN 1 ELSE 0)
    IN [passed              |-> rules_met >= 1,
        rules_met           |-> rules_met,
        rule1_momentum_slow |-> rule1,
        rule2_volume_drop   |-> rule2,
        rule3_pullback      |-> rule3,
        surge_peak_used     |-> surge_peak]

check_hard_rules(price_data) ==
    LET prices     == Get(price_data, "prices", << >>)
        volumes    == Get(price_data, "volumes", << >>)
        current    == Get(price_data, "current_price", 0)
        surge_peak == find_surge_peak(price_data)
        np         == Len(prices)
        nv         == Len(volumes)
        \* |(p[-1] - p[-2]) / p[-2] * 100| < 0.3
        rule1 == /\ np >= 2
                 /\ prices[np - 1] # 0
                 /\ Abs(prices[np] - prices[np - 1]) * 1000
                      < SLOWDOWN_PRICE_CHANGE * Abs(prices[np - 1])
        \* (mean(v[-7:-1]) - v[-1]) / mean(v[-7:-1]) >= 0.4
        prior_sum == IF nv >= 7 THEN SumSeq(SubSeq(volumes, nv - 6, nv - 1)) ELSE 0
        rule2 == /\ nv >= 7
                 /\ prior_sum > 0
                 /\ (prior_sum - 6 * volumes[nv]) * 10
                      >= VOLUME_DROP_THRESHOLD * prior_sum
        \* (peak - current) / peak * 100 >= 1.5
        rule3 == /\ surge_peak > 0
                 /\ current > 0
                 /\ (surge_peak - current) * 1000 >= PULLBACK_FROM_HIGH * surge_peak
        rules_met == (IF rule1 THEN 1 ELSE 0) + (IF rule2 THEN 1 ELSE 0)
                       + (IF rule3 THEN 1 ELSE 0)
    IN [passed              |-> rules_met >= 2,
        rules_met           |-> rules_met,
        rule1_momentum_slow |-> rule1,
        rule2_volume_drop   |-> rule2,
        rule3_pullback      |-> rule3,
        surge_peak_used     |-> surge_peak]

StopLossPct(vol) ==
    IF vol > 300 THEN STOP_LOSS_HIGH_VOL
    ELSE IF vol > 200 THEN STOP_LOSS_MED_VOL
    ELSE STOP_LOSS_LOW_VOL

\* round(short_price * (1 + pct), 2), in cents
calculate_stop_loss(volFeed, short_price) ==
    RoundDiv(short_price * (100 + StopLossPct(get_historical_volatility(volFeed))), 100)

\* mutation: the price guard also rejects a gain equal to PRICE_GUARD_MIN_GAIN
detect_slowdown_strict_guard(intradayFeed, reply, volFeed, pre_earnings_price) ==
    LET price_data == get_recent_intraday_data(intradayFeed) IN
    IF price_data = EmptyDict
    THEN [trigger |-> FALSE, abort_reason |-> "No intraday data"]
    ELSE LET current == Get(price_data, "current_price", 0)
             gain    == current - pre_earnings_price
         IN IF gain <= PRICE_GUARD_MIN_GAIN
            THEN [trigger |-> FALSE, current_price |-> current,
                  abort_reason |-> "Price guard"]
            ELSE LET hard_rules == check_hard_rules(price_data)
                     ai_result  == analyze_slowdown(reply)
                     trigger    == /\ hard_rules.passed
                                   /\ Get(ai_result, "confidence", 0)
                                        >= AI_CONFIDENCE_THRESHOLD
                 IN [trigger       |-> trigger,
                     current_price |-> current,
                     hard_rules    |-> hard_rules,
                     ai_analysis   |-> ai_result,
                     stop_loss     |-> IF trigger
                                       THEN calculate_stop_loss(volFeed, current)
                                       ELSE 0,
                     abort_reason  |-> IF trigger THEN ""
                                       ELSE "Slowdown conditions not met"]

\* mutation: the AI must also answer slowing = true
detect_slowdown_needs_slowing(intradayFeed, reply, volFeed, pre_earnings_price) ==
    LET price_data == get_recent_intraday_data(intradayFeed) IN
    IF price_data = EmptyDict
    THEN [trigger |-> FALSE, abort_reason |-> "No intraday data"]
    ELSE LET current == Get(price_data, "current_price", 0)
             gain    == current - pre_earnings_price
         IN IF gain < PRICE_GUARD_MIN_GAIN
            THEN [trigger |-> FALSE, current_price |-> current,
                  abort_reason |-> "Price guard"]
            ELSE LET hard_rules == check_hard_rules(price_data)
                     ai_result  == analyze_slowdown(reply)
                     ai_ok      == Get(ai_result, "confidence", 0)
                                     >= AI_CONFIDENCE_THRESHOLD
                     trigger    == /\ hard_rules.passed /\ ai_ok
                                   /\ Get(ai_result, "slowing", FALSE)
                 IN [trigger       |-> trigger,
                     current_price |-> current,
                     hard_rules    |-> hard_rules,
                     ai_analysis   |-> ai_result,
                     stop_loss     |-> IF trigger
                                       THEN calculate_stop_loss(volFeed, current)
                                       ELSE 0,
                     abort_reason  |-> IF trigger THEN ""
                                       ELSE "Slowdown conditions not met"]

detect_slowdown(intradayFeed, reply, volFeed, pre_earnings_price) ==
    LET price_data == get_recent_intraday_data(intradayFeed) IN
    IF price_data = EmptyDict
    THEN [trigger |-> FALSE, abort_reason |-> "No intraday data"]
    ELSE LET current == Get(price_data, "current_price", 0)
             gain    == current - pre_earnings_price
         IN IF gain < PRICE_GUARD_MIN_GAIN
            THEN [trigger |-> FALSE, current_price |-> current,
                  abort_reason |-> "Price guard"]
            ELSE LET hard_rules == check_hard_rules(price_data)
                     ai_result  == analyze_slowdown(reply)
                     ai_ok      == Get(ai_result, "confidence", 0)
                                     >= AI_CONFIDENCE_THRESHOLD
                     trigger    == hard_rules.passed /\ ai_ok
                 IN [trigger       |-> trigger,
                     current_price |-> current,
                     hard_rules    |-> hard_rules,
                     ai_analysis   |-> ai_result,
                     stop_loss     |-> IF trigger
                                       THEN calculate_stop_loss(volFeed, current)
                                       ELSE 0,
                     abort_reason  |-> IF trigger THEN ""
                                       ELSE "Slowdown conditions not met"]

(***************************************************************************)
(* pipeline/step5_react_verify.py                                          *)
(***************************************************************************)
run_step5(reply) ==
    LET verified == verify_trade(reply) IN
    [proceed         |-> Get(verified, "confirmed", FALSE)
                         /\ Get(verified, "confidence", 0) >= AI_CONFIDENCE_THRESHOLD,
     confirmed       |-> Get(verified, "confirmed", FALSE),
     confidence      |-> Get(verified, "confidence", 0),
     risk_factors    |-> Get(verified, "risk_factors", ""),
     final_reasoning |-> Get(verified, "final_reasoning", "")]

(***************************************************************************)
(* tools/notifier.py and pipeline/step6_notify.py                          *)
(***************************************************************************)
APPROVAL_TIMEOUT_SEC == 300

APPROVAL_POLL_INTERVAL_SEC == 15

Whitespace == {" ", "\t"}

UpperChar(c) ==
    CASE c = "y" -> "Y" [] c = "e" -> "E" [] c = "s" -> "S"
      [] c = "n" -> "N" [] c = "o" -> "O" [] c = "k" -> "K"
      [] OTHER -> c

RECURSIVE LStrip(_)
LStrip(s) == IF s # << >> /\ Head(s) \in Whitespace THEN LStrip(Tail(s)) ELSE s

RECURSIVE RStrip(_)
RStrip(s) ==
    IF s # << >> /\ s[Len(s)] \in Whitespace
    THEN RStrip(SubSeq(s, 1, Len(s) - 1)) ELSE s

\* str.strip().upper()
StripUpper(s) == LET t == RStrip(LStrip(s)) IN [i \in 1..Len(t) |-> UpperChar(t[i])]

StartsWith(s, prefix) ==
    Len(s) >= Len(prefix) /\ SubSeq(s, 1, Len(prefix)) = prefix

\* mutation: the send time of the message is not compared with sent_at
IsReplyAfter_any_time(msg, sent_at) == msg.direction = "inbound"

\* msg.date_sent and msg.date_sent.timestamp() > sent_at and
\* msg.direction == "inbound"
IsReplyAfter(msg, sent_at) ==
    msg.has_date /\ msg.date_sent > sent_at /\ msg.direction = "inbound"

\* the for loop over one listing: "yes" / "no" when a message decides, "none"
\* when none does or when reading a message raises (body is None)
RECURSIVE ScanMessages(_, _)
ScanMessages(msgs, sent_at) ==
    IF msgs = << >> THEN "none"
    ELSE LET msg == Head(msgs) IN
         IF IsReplyAfter(msg, sent_at)
         THEN IF ~msg.has_body THEN "none"
              ELSE LET body == StripUpper(msg.body) IN
                   IF StartsWith(body, <<"Y", "E", "S">>) THEN "yes"
                   ELSE IF StartsWith(body, <<"N", "O">>) THEN "no"
                   ELSE ScanMessages(Tail(msgs), sent_at)
         ELSE ScanMessages(Tail(msgs), sent_at)

\* one poll of wait_for_approval: client.messages.list may raise
PollInbox(inbox, sent_at) ==
    IF ~inbox.ok THEN "none" ELSE ScanMessages(inbox.msgs, sent_at)

(***************************************************************************)
(* tools/broker: short_in_batches and cover_in_batches                     *)
(*                                                                         *)
(* A tranche order ends as [ok |-> FALSE] (the broker call raises) or as   *)
(* [ok |-> TRUE, fill |-> p], p the reported average fill price, 0 when    *)
(* the order has not filled after the 3 second wait.                       *)
(***************************************************************************)
\* int(MAX_SHORT_POSITION_PER_STOCK / entry_price), entry_price > 0
TotalShares(entry_price) == MAX_SHORT_POSITION_PER_STOCK \div entry_price

\* mutation: the tranche size is rounded up
TrancheShares_rounded_up(total_shares, i) ==
    (total_shares * BATCH_SIZES[i] + 99) \div 100

\* math.floor(total_shares * pct)
TrancheShares(total_shares, i) == (total_shares * BATCH_SIZES[i]) \div 100

\* mutation: a tranche whose order raised is recorded with its size
ShortTranche_error_keeps_size(i, shares, outcome) ==
    IF outcome.ok
    THEN [batch |-> i, shares |-> shares, fill_price |-> outcome.fill]
    ELSE [batch |-> i, shares |-> shares, fill_price |-> 0, error |-> "error"]

ShortTranche(i, shares, outcome) ==
    IF outcome.ok
    THEN [batch |-> i, shares |-> shares, fill_price |-> outcome.fill]
    ELSE [batch |-> i, shares |-> 0, fill_price |-> 0, error |-> "error"]

CoverTranche(i, shares, outcome) ==
    IF outcome.ok
    THEN [batch |-> i, shares |-> shares, fill_price |-> outcome.fill]
    ELSE [batch |-> i, error |-> "error"]

RECURSIVE FillSum(_)
FillSum(results) ==
    IF results = << >> THEN 0
    ELSE (IF Get(Head(results), "fill_price", 0) > 0
          THEN Head(results).fill_price ELSE 0) + FillSum(Tail(results))

RECURSIVE FillCount(_)
FillCount(results) ==
    IF results = << >> THEN 0
    ELSE (IF Get(Head(results), "fill_price", 0) > 0 THEN 1 ELSE 0)
         + FillCount(Tail(results))

\* round(sum(fills > 0) / max(len(fills > 0), 1), 2)
AvgFill(results) ==
    LET n == FillCount(results) IN RoundDiv(FillSum(results), IF n > 1 THEN n ELSE 1)

\* what short_in_batches returns once the three tranches have been attempted
ShortResult(ticker, total_filled, results) ==
    [success |-> TRUE, ticker |-> ticker, total_shares_shorted |-> total_filled,
     avg_fill_price |-> AvgFill(results), batches |-> results]

\* cover_in_batches with the broker connected and the three outcomes given
CoverResults(total_shares, outcomes) ==
    [i \in 1..3 |-> CoverTranche(i, TrancheShares(total_shares, i), outcomes[i])]

cover_in_batches(total_shares, connected, outcomes) ==
    IF ~connected THEN [success |-> FALSE]
    ELSE [success |-> TRUE,
          avg_cover_price |-> AvgFill(CoverResults(total_shares, outcomes))]

(***************************************************************************)
(* pipeline/step8_monitor.py                                               *)
(***************************************************************************)
MONITOR_POLL_INTERVAL_SEC == 300

DAY_SEC == 86400

MaxSecs == MAX_DAYS_WAIT_COVER * DAY_SEC

\* short_price * 0.97 is a double.  When the exact product is a whole number
\* of cents (short_price a whole number of dollars) the double can lie one ulp
\* below it, and a price of exactly that many cents is then above the target.
\* These are the short prices up to 300 dollars for which it does.
TARGET_ROUNDS_BELOW ==
    {1500, 2700, 3000, 3500, 4100, 4700, 5400, 6000, 6900, 7000, 8200, 8300,
     9400, 9500, 10700, 10800, 11900, 12000, 12100, 13800, 13900, 14000,
     16300, 16400, 16500, 16600, 18800, 18900, 19000, 19100, 21300, 21400,
     21500, 21600, 21700, 23800, 23900, 24000, 24100, 24200, 24300, 26300,
     27600, 27800, 28000}

\* current <= _take_profit_target(short_price)
AtOrBelowTarget(current, short_price) ==
    \/ current * 100 < short_price * 97
    \/ current * 100 = short_price * 97 /\ short_price \notin TARGET_ROUNDS_BELOW

\* mutation: a price of 0 is taken for a quote
FetchFailed_negative_only(current) == current < 0

\* if current <= 0: retry
FetchFailed(current) == current <= 0

\* mutation: a failed fetch is not set apart; 0 is below every target
MonitorTick_without_retry(current, short_price, stop_loss) ==
    IF current >= stop_loss THEN "stop_loss"
    ELSE IF AtOrBelowTarget(current, short_price) THEN "take_profit"
    ELSE "hold"

\* one pass of the loop body on the fetched price: "retry" (failed fetch),
\* "stop_loss", "take_profit" or "hold"
MonitorTick(current, short_price, stop_loss) ==
    IF FetchFailed(current) THEN "retry"
    ELSE IF current >= stop_loss THEN "stop_loss"
    ELSE IF AtOrBelowTarget(current, short_price) THEN "take_profit"
    ELSE "hold"

(***************************************************************************)
(* pipeline/step9_cover.py                                                 *)
(***************************************************************************)
execute_cover(short_price, total_shares, monitor_result, connected, outcomes) ==
    LET result      == cover_in_batches(total_shares, connected, outcomes)
        cover_price == Get(result, "avg_cover_price", 0)
        profit_loss == (short_price - cover_price) * total_shares
    IN Put(Put(result, "profit_loss", profit_loss),
           "days_held", Get(monitor_result, "days_held", 0))

(***************************************************************************)
(* graph/nodes.py: the node functions as state transformers, each given    *)
(* what its pipeline step returned                                         *)
(***************************************************************************)
node_step1(st, earnings) ==
    LET s1 == [st EXCEPT !.earnings_list = earnings] IN
    IF earnings # << >>
    THEN [s1 EXCEPT !.ticker = earnings[1].ticker,
                    !.pre_earnings_price = earnings[1].pre_earnings_price]
    ELSE [s1 EXCEPT !.abort_reason = "Step 1: no upcoming earnings"]

\* the abort reason is built with f"{result.get('beat_pct', 0):.1f}", which
\* raises TypeError when beat_pct is None
node_step2_raises(result) ==
    ~Get(result, "qualifies", FALSE) /\ Get(result, "beat_pct", 0) = JsonNull

node_step2(st, result) ==
    LET s1 == [st EXCEPT !.earnings_beat = result] IN
    IF ~Get(result, "qualifies", FALSE)
    THEN [s1 EXCEPT !.abort_reason = "Step 2: earnings did not qualify"]
    ELSE s1

node_step3(st, result) ==
    LET s1 == [st EXCEPT !.surge_result  = Get(result, "surge", EmptyDict),
                         !.market_health = Get(result, "market", EmptyDict)]
    IN IF ~Get(result, "proceed", FALSE)
       THEN [s1 EXCEPT !.abort_reason = "Step 3: " \o result.abort_reason]
       ELSE s1

node_step4(st, result) ==
    LET s1 == [st EXCEPT !.slowdown_result = result] IN
    IF ~Get(result, "trigger", FALSE)
    THEN [s1 EXCEPT !.abort_reason = "Step 4: " \o result.abort_reason]
    ELSE s1

node_step5(st, result) ==
    LET s1 == [st EXCEPT !.verify_result = result] IN
    IF ~Get(result, "proceed", FALSE)
    THEN [s1 EXCEPT !.abort_reason = "Step 5: ReAct verification failed"]
    ELSE s1

\* mutation: a rejection is stored but does not set abort_reason
node_step6_without_abort(st, approved) == [st EXCEPT !.approved = approved]

node_step6(st, approved) ==
    LET s1 == [st EXCEPT !.approved = approved] IN
    IF ~approved
    THEN [s1 EXCEPT !.abort_reason = "Step 6: user rejected or timed out"]
    ELSE s1

\* mutation: step 7 also stores the fill price as the entry price of step 4
node_step7_rewrites_entry(st, result) ==
    LET s1 == [st EXCEPT !.short_result = result,
                         !.slowdown_result =
                             Put(@, "current_price", Get(result, "avg_fill_price", 0))]
    IN IF ~Get(result, "success", FALSE)
       THEN [s1 EXCEPT !.abort_reason = "Step 7: short execution failed - "
                                          \o Get(result, "reason", "None")]
       ELSE s1

node_step7(st, result) ==
    LET s1 == [st EXCEPT !.short_result = result] IN
    IF ~Get(result, "success", FALSE)
    THEN [s1 EXCEPT !.abort_reason = "Step 7: short execution failed - "
                                       \o Get(result, "reason", "None")]
    ELSE s1

\* mutation: the conditional edges always continue
should_continue_always(st) == "continue"

\* _should_continue
should_continue(st) == IF st.abort_reason # "" THEN "END" ELSE "continue"

\* build_graph: the node sequence, a conditional edge after every node but the
\* last, and the edge step10 -> END
NODE_SEQUENCE == <<"step1", "step2", "step3", "step4", "step5", "step6",
                   "step7", "step8_9", "step10">>

NodeIndex(node) == CHOOSE i \in 1..Len(NODE_SEQUENCE) : NODE_SEQUENCE[i] = node

\* mutation: after a cover that failed the run ends without a record
Route_ends_on_failed_cover(node, st) ==
    IF node = "step10" THEN "END"
    ELSE IF node = "step8_9" /\ ~Get(st.cover_result, "success", FALSE) THEN "END"
    ELSE IF should_continue(st) = "END" THEN "END"
    ELSE NODE_SEQUENCE[NodeIndex(node) + 1]

\* mutation: the edge after step8_9 leads to END, not to step10
Route_without_record(node, st) ==
    IF node \in {"step8_9", "step10"} THEN "END"
    ELSE IF should_continue(st) = "END" THEN "END"
    ELSE NODE_SEQUENCE[NodeIndex(node) + 1]

Route(node, st) ==
    IF node = "step10" THEN "END"
    ELSE IF should_continue(st) = "END" THEN "END"
    ELSE NODE_SEQUENCE[NodeIndex(node) + 1]

\* main.run_pipeline: the initial AgentState
InitialState ==
    [earnings_list      |-> << >>,
     ticker             |-> "",
     pre_earnings_price |-> 0,
     earnings_beat      |-> EmptyDict,
     surge_result       |-> EmptyDict,
     market_health      |-> EmptyDict,
     slowdown_result    |-> EmptyDict,
     verify_result      |-> EmptyDict,
     approved           |-> FALSE,
     short_result       |-> EmptyDict,
     monitor_result     |-> EmptyDict,
     cover_result       |-> EmptyDict,
     abort_reason       |-> ""]

(***************************************************************************)
(* What the gateways can answer (the inputs of a run)                      *)
(***************************************************************************)
MaxInbox == 2

MaxPolls == 1

ApprovalLag == 285

StallSecs == 604500

Tickers == {STOCKS[i] : i \in 1..Len(STOCKS)}

NoDates == [t \in Tickers |-> [known |-> FALSE, days_until |-> 0]]

In(days) == [known |-> TRUE, days_until |-> days]

Calendars ==
    {NoDates,
     [NoDates EXCEPT !["NVDA"] = In(7)],
     [NoDates EXCEPT !["TSLA"] = In(8), !["AAPL"] = In(-1)],
     [NoDates EXCEPT !["AAPL"] = In(0), !["NVDA"] = In(3)]}

Price(p) == [ok |-> TRUE, price |-> p]

NoPrice == [ok |-> FALSE, price |-> 0]

PreEarningsFeeds ==
    {[t \in Tickers |-> Price(20000)],
     [t \in Tickers |-> IF t = "AAPL" THEN NoPrice ELSE Price(20000)]}

Object(d) == [kind |-> "object", obj |-> d]

BadReplies == {[kind |-> "api_error"], [kind |-> "garbage"], [kind |-> "scalar"]}

EarningsReplies ==
    BadReplies \cup
    {Object([beat |-> TRUE, beat_pct |-> 10, confidence |-> 80, reason |-> "beat"]),
     Object([beat |-> TRUE, beat_pct |-> 9, confidence |-> 80, reason |-> "small"]),
     Object([beat |-> FALSE, beat_pct |-> 20, confidence |-> 60, reason |-> "miss"]),
     Object([beat |-> FALSE, beat_pct |-> JsonNull, confidence |-> 10,
             reason |-> "unclear"]),
     Object([beat |-> TRUE])}

IndexFeeds(changes) ==
    {[ok |-> FALSE, change |-> 0]} \cup {[ok |-> TRUE, change |-> c] : c \in changes}

SurgePriceFeeds == {NoPrice, Price(21500), Price(21600)}

Bars(prices, volumes) ==
    [ok |-> TRUE, prices |-> prices, volumes |-> volumes,
     today_high |-> MaxSeq(prices)]

Flat(n, v) == [i \in 1..n |-> v]

IntradayFeeds ==
    {[ok |-> FALSE, prices |-> << >>, volumes |-> << >>, today_high |-> 0],
     Bars(Flat(3, 24000), Flat(3, 100)),
     Bars(Flat(7, 23900), Flat(6, 100) \o <<50>>),
     Bars(Flat(7, 24000), Flat(7, 100)),
     Bars(Flat(7, 24000), Flat(6, 100) \o <<60>>)}

SlowdownReplies ==
    {[kind |-> "api_error"], [kind |-> "garbage"],
     Object([slowing |-> TRUE, confidence |-> 75, reasoning |-> "fading"]),
     Object([slowing |-> TRUE, confidence |-> 69, reasoning |-> "unsure"])}

VolatilityFeeds == {[ok |-> FALSE, vol |-> 0], [ok |-> TRUE, vol |-> 350]}

VerifyReplies ==
    BadReplies \cup
    {Object([confirmed |-> TRUE, confidence |-> 70,
             risk_factors |-> "squeeze", final_reasoning |-> "ok"]),
     Object([confirmed |-> TRUE, confidence |-> 69,
             risk_factors |-> "squeeze", final_reasoning |-> "weak"]),
     Object([confirmed |-> FALSE, confidence |-> 90,
             risk_factors |-> "squeeze", final_reasoning |-> "no"])}

Msg(date_sent, direction, body) ==
    [has_date |-> TRUE, date_sent |-> date_sent, direction |-> direction,
     has_body |-> TRUE, body |-> body]

\* date_sent is in seconds since the alert's sent_at: negative is a message
\* from before the alert
Messages ==
    {Msg(1, "inbound", <<" ", "y", "e", "s">>),
     Msg(1, "inbound", <<"N", "o">>),
     Msg(1, "inbound", <<"o", "k">>),
     Msg(-60, "inbound", <<"Y", "E", "S">>),
     Msg(0, "inbound", <<"Y", "E", "S">>),
     Msg(1, "outbound-reply", <<"Y", "E", "S">>),
     [Msg(1, "inbound", <<"Y", "E", "S">>) EXCEPT !.has_date = FALSE],
     [Msg(1, "inbound", << >>) EXCEPT !.has_body = FALSE]}

RECURSIVE SeqsUpTo(_, _)
SeqsUpTo(S, n) ==
    IF n = 0 THEN {<< >>}
    ELSE LET shorter == SeqsUpTo(S, n - 1) IN
         shorter \cup {Append(s, x) : s \in shorter, x \in S}

Inboxes ==
    {[ok |-> FALSE, msgs |-> << >>]}
    \cup {[ok |-> TRUE, msgs |-> m] : m \in SeqsUpTo(Messages, MaxInbox)}

TrancheOutcomes ==
    {[ok |-> FALSE, fill |-> 0]} \cup {[ok |-> TRUE, fill |-> p] : p \in {0, 24000, 26000}}

CoverOutcomes == {[ok |-> FALSE, fill |-> 0], [ok |-> TRUE, fill |-> 23000]}

MonitorPriceFeeds ==
    {NoPrice} \cup {Price(p) : p \in {23280, 24500, 25200, 25220, 26000}}

(***************************************************************************)
(* One pipeline run                                                        *)
(***************************************************************************)
NoInbox == [ok |-> FALSE, msgs |-> << >>]

NoWait == [sent_at |-> 0, now |-> 0, polls |-> 0, messages |-> NoInbox]

NoBatch == [i |-> 0, total_shares |-> 0, total_filled |-> 0, results |-> << >>]

NoMon ==
    [short_price |-> 0, stop_loss |-> 0, elapsed |-> 0, polls |-> 0, last |-> 0,
     quotes |-> 0]

NoCall == [fn |-> "none"]

\* main_loop before its first iteration: no run started, no tick made
NoLoop ==
    [pc |-> "top", iterations |-> 0, active |-> 0, phase |-> "none",
     runs |-> 0, hb_ticks |-> 0, idle_ticks |-> 0, ticks_in_run |-> 0,
     sleep_secs |-> 0, market_hours |-> FALSE, branch |-> "none",
     raised |-> "none", caught |-> "none", opened |-> FALSE,
     current_positions |-> << >>, has_position |-> FALSE]

\* no HeartbeatScheduler constructed yet
NoHeartbeat == [constructed |-> FALSE]

\* no IdleTaskScheduler constructed yet
NoIdle == [constructed |-> FALSE]

Init ==
    /\ fcall = NoCall
    /\ loop = NoLoop
    /\ hb = NoHeartbeat
    /\ idle = NoIdle
    /\ pc = "step1"
    /\ state = InitialState
    /\ wait = NoWait
    /\ batch = NoBatch
    /\ mon = NoMon
    /\ hist = [nodes         |-> << >>,
               replies       |-> [step2 |-> "none", step4 |-> "none", step5 |-> "none"],
               approval      |-> "none",
               orders        |-> 0,
               monitor_calls |-> << >>,
               covers        |-> 0,
               records       |-> 0]

Ran(node) == [hist EXCEPT !.nodes = Append(@, node)]

NodeStep1 ==
    /\ UNCHANGED <<fcall, loop, hb, idle>>
    /\ pc = "step1"
    /\ \E calendar \in Calendars, prices \in PreEarningsFeeds :
         LET st == node_step1(state, get_earnings_within_7_days(calendar, prices))
         IN state' = st /\ pc' = Route("step1", st)
    /\ hist' = Ran("step1")
    /\ UNCHANGED <<wait, batch, mon>>

NodeStep2 ==
    /\ UNCHANGED <<fcall, loop, hb, idle>>
    /\ pc = "step2"
    /\ \E reply \in EarningsReplies :
         LET result == check_earnings_beat(state.ticker, reply)
             st     == node_step2(state, result)
         IN /\ IF check_earnings_beat_raises(reply) \/ node_step2_raises(result)
               THEN state' = state /\ pc' = "RAISED"
               ELSE state' = st /\ pc' = Route("step2", st)
            /\ hist' = [Ran("step2") EXCEPT !.replies.step2 = reply.kind]
    /\ UNCHANGED <<wait, batch, mon>>

NodeStep3 ==
    /\ UNCHANGED <<fcall, loop, hb, idle>>
    /\ pc = "step3"
    /\ \E spy \in IndexFeeds({-200, 50}), qqq \in IndexFeeds({-250, 50}),
          price \in SurgePriceFeeds :
         LET st == node_step3(state,
                              run_step3(spy, qqq, price, state.pre_earnings_price))
         IN state' = st /\ pc' = Route("step3", st)
    /\ hist' = Ran("step3")
    /\ UNCHANGED <<wait, batch, mon>>

\* the judgment service is asked only once the intraday data passed the price guard
SlowdownAsked(feed, pre_earnings_price) ==
    LET price_data == get_recent_intraday_data(feed) IN
    /\ price_data # EmptyDict
    /\ price_data.current_price - pre_earnings_price >= PRICE_GUARD_MIN_GAIN

NodeStep4 ==
    /\ UNCHANGED <<fcall, loop, hb, idle>>
    /\ pc = "step4"
    /\ \E feed \in IntradayFeeds, reply \in SlowdownReplies, vol \in VolatilityFeeds :
         LET st == node_step4(state,
                              detect_slowdown(feed, reply, vol, state.pre_earnings_price))
         IN /\ state' = st
            /\ pc' = Route("step4", st)
            /\ hist' = [Ran("step4") EXCEPT !.replies.step4 =
                          IF SlowdownAsked(feed, state.pre_earnings_price)
                          THEN reply.kind ELSE "none"]
    /\ UNCHANGED <<wait, batch, mon>>

NodeStep5 ==
    /\ UNCHANGED <<fcall, loop, hb, idle>>
    /\ pc = "step5"
    /\ \E reply \in VerifyReplies :
         LET st == node_step5(state, run_step5(reply))
         IN /\ state' = st
            /\ pc' = Route("step5", st)
            /\ hist' = [Ran("step5") EXCEPT !.replies.step5 = reply.kind]
    /\ UNCHANGED <<wait, batch, mon>>

\* node_step6 returns with notify_and_wait_approval's answer
Step6Returns(approved) ==
    LET st == node_step6(state, approved) IN
    /\ state' = st
    /\ pc' = Route("step6", st)
    /\ wait' = NoWait
    /\ UNCHANGED <<batch, mon>>

\* notify_and_wait_approval up to the call of wait_for_approval
NodeStep6 ==
    /\ UNCHANGED <<fcall, loop, hb, idle>>
    /\ pc = "step6"
    /\ \E sent \in BOOLEAN :
         IF ~sent
         THEN /\ Step6Returns(FALSE)
              /\ hist' = [Ran("step6") EXCEPT !.approval = "sms_failed"]
         ELSE /\ wait' = NoWait
              /\ pc' = "step6_wait"
              /\ hist' = Ran("step6")
              /\ UNCHANGED <<state, batch, mon>>

\* wait_for_approval: the loop test, the sleep and client.messages.list.  The
\* sleep lasts the poll interval, or longer when the process is delayed.
ApprovalPoll ==
    /\ UNCHANGED <<fcall, loop, hb, idle>>
    /\ pc = "step6_wait"
    /\ wait.now < wait.sent_at + APPROVAL_TIMEOUT_SEC
    /\ \E lag \in {0, ApprovalLag}, inbox \in Inboxes :
         /\ lag = 0 => wait.polls < MaxPolls
         /\ wait' = [wait EXCEPT !.now = @ + APPROVAL_POLL_INTERVAL_SEC + lag,
                                 !.polls = @ + 1,
                                 !.messages = inbox]
    /\ pc' = "step6_scan"
    /\ UNCHANGED <<state, batch, mon, hist>>

\* wait_for_approval: the for loop over the listed messages
ApprovalScan ==
    /\ UNCHANGED <<fcall, loop, hb, idle>>
    /\ pc = "step6_scan"
    /\ LET decision == PollInbox(wait.messages, wait.sent_at) IN
       IF decision = "none"
       THEN /\ wait' = [wait EXCEPT !.messages = NoInbox]
            /\ pc' = "step6_wait"
            /\ UNCHANGED <<state, batch, mon, hist>>
       ELSE /\ Step6Returns(decision = "yes")
            /\ hist' = [hist EXCEPT !.approval = decision]

\* wait_for_approval: the deadline has passed
ApprovalTimeout ==
    /\ UNCHANGED <<fcall, loop, hb, idle>>
    /\ pc = "step6_wait"
    /\ ~(wait.now < wait.sent_at + APPROVAL_TIMEOUT_SEC)
    /\ Step6Returns(FALSE)
    /\ hist' = [hist EXCEPT !.approval = "timeout"]

\* short_in_batches before the first order: the reason it refuses, "" if none
\* mutation: the minimum of 3 shares is not checked
ShortRefusal_any_size(entry_price, connected) ==
    IF entry_price <= 0 THEN "Invalid entry price (zero or negative)"
    ELSE IF ~connected THEN "IBKR not connected"
    ELSE ""

ShortRefusal(entry_price, connected) ==
    IF entry_price <= 0 THEN "Invalid entry price (zero or negative)"
    ELSE IF TotalShares(entry_price) < 3 THEN "Too few shares"
    ELSE IF ~connected THEN "IBKR not connected"
    ELSE ""

Step7Returns(result) ==
    LET st == node_step7(state, result) IN
    /\ state' = st
    /\ pc' = Route("step7", st)
    /\ batch' = NoBatch
    /\ UNCHANGED <<wait, mon>>

\* node_step7 -> execute_short -> short_in_batches, up to the first tranche
NodeStep7 ==
    /\ UNCHANGED <<fcall, loop, hb, idle>>
    /\ pc = "step7"
    /\ hist' = Ran("step7")
    /\ \E connected \in BOOLEAN :
         LET entry_price == Get(state.slowdown_result, "current_price", 0)
             reason      == ShortRefusal(entry_price, connected)
         IN IF reason # ""
            THEN Step7Returns([success |-> FALSE, reason |-> reason])
            ELSE /\ batch' = [i |-> 1, total_shares |-> TotalShares(entry_price),
                              total_filled |-> 0, results |-> << >>]
                 /\ pc' = "step7_batch"
                 /\ UNCHANGED <<state, wait, mon>>

\* one pass of the loop over BATCH_SIZES; after the third, short_in_batches,
\* execute_short and node_step7 return
PlaceShortTranche ==
    /\ UNCHANGED <<fcall, loop, hb, idle>>
    /\ pc = "step7_batch"
    /\ \E outcome \in TrancheOutcomes :
         LET shares  == TrancheShares(batch.total_shares, batch.i)
             results == Append(batch.results, ShortTranche(batch.i, shares, outcome))
             filled  == batch.total_filled + (IF outcome.ok THEN shares ELSE 0)
         IN IF batch.i < Len(BATCH_SIZES)
            THEN /\ batch' = [batch EXCEPT !.i = @ + 1, !.total_filled = filled,
                                           !.results = results]
                 /\ UNCHANGED <<pc, state, wait, mon>>
            ELSE Step7Returns(ShortResult(state.ticker, filled, results))
    /\ hist' = [hist EXCEPT !.orders = @ + 1]

\* node_step8_9 calls monitor_position
NodeStep8_9 ==
    /\ UNCHANGED <<fcall, loop, hb, idle>>
    /\ pc = "step8_9"
    /\ mon' = [short_price |-> Get(state.short_result, "avg_fill_price", 0),
               stop_loss   |-> Get(state.slowdown_result, "stop_loss", 0),
               elapsed     |-> 0,
               polls       |-> 0,
               last        |-> 0,
               quotes      |-> 0]
    /\ pc' = "step8_loop"
    /\ hist' = [Ran("step8_9") EXCEPT !.monitor_calls =
                  Append(@, [short_price |-> mon'.short_price,
                             stop_loss   |-> mon'.stop_loss])]
    /\ UNCHANGED <<state, wait, batch>>

MonitorReturns(action, price, days_held) ==
    /\ state' = [state EXCEPT !.monitor_result =
                   [action |-> action, price |-> price, days_held |-> days_held]]
    /\ pc' = "step9_cover"

\* monitor_position: one pass of the while loop.  The sleep lasts the poll
\* interval, or longer when the process is stalled.
MonitorPoll ==
    /\ UNCHANGED <<fcall, loop, hb, idle>>
    /\ pc = "step8_loop"
    /\ mon.elapsed < MaxSecs
    /\ \E feed \in MonitorPriceFeeds, stall \in {0, StallSecs} :
         LET current == get_current_price(feed)
             verdict == MonitorTick(current, mon.short_price, mon.stop_loss)
         IN IF verdict \in {"retry", "hold"}
            THEN /\ stall = 0 => mon.polls < MaxPolls
                 /\ mon' = [mon EXCEPT
                              !.elapsed = @ + MONITOR_POLL_INTERVAL_SEC + stall,
                              !.polls   = @ + 1,
                              !.last    = current,
                              !.quotes  = IF verdict = "hold" THEN @ + 1 ELSE @]
                 /\ UNCHANGED <<pc, state>>
            ELSE /\ stall = 0
                 /\ mon' = [mon EXCEPT !.polls = @ + 1, !.last = current,
                                       !.quotes = @ + 1]
                 /\ MonitorReturns(verdict, current, mon.elapsed)
    /\ UNCHANGED <<wait, batch, hist>>

\* monitor_position: the holding period is over
MonitorTimeout ==
    /\ UNCHANGED <<fcall, loop, hb, idle>>
    /\ pc = "step8_loop"
    /\ ~(mon.elapsed < MaxSecs)
    /\ \E feed \in MonitorPriceFeeds :
         LET current == get_current_price(feed) IN
         /\ mon' = [mon EXCEPT !.polls = @ + 1, !.last = current]
         /\ MonitorReturns("timeout", current, MaxSecs)
    /\ UNCHANGED <<wait, batch, hist>>

\* node_step8_9 calls execute_cover and returns
Cover ==
    /\ UNCHANGED <<fcall, loop, hb, idle>>
    /\ pc = "step9_cover"
    /\ \E connected \in BOOLEAN, outcomes \in [1..3 -> CoverOutcomes] :
         LET cover == execute_cover(Get(state.short_result, "avg_fill_price", 0),
                                    Get(state.short_result, "total_shares_shorted", 0),
                                    state.monitor_result, connected, outcomes)
             st    == [state EXCEPT !.cover_result = cover]
         IN state' = st /\ pc' = Route("step8_9", st)
    /\ mon' = NoMon
    /\ hist' = [hist EXCEPT !.covers = @ + 1]
    /\ UNCHANGED <<wait, batch>>

\* node_step10 calls record_trade
NodeStep10 ==
    /\ UNCHANGED <<fcall, loop, hb, idle>>
    /\ pc = "step10"
    /\ hist' = [Ran("step10") EXCEPT !.records = @ + 1]
    /\ pc' = Route("step10", state)
    /\ UNCHANGED <<state, wait, batch, mon>>

Next ==
    \/ NodeStep1
    \/ NodeStep2
    \/ NodeStep3
    \/ NodeStep4
    \/ NodeStep5
    \/ NodeStep6
    \/ ApprovalPoll
    \/ ApprovalScan
    \/ ApprovalTimeout
    \/ NodeStep7
    \/ PlaceShortTranche
    \/ NodeStep8_9
    \/ MonitorPoll
    \/ MonitorTimeout
    \/ Cover
    \/ NodeStep10

Spec == Init /\ [][Next]_vars

\* every sleep and every gateway call returns: a run that can take a step
\* eventually takes one
LiveSpec == Spec /\ WF_vars(Next)

(***************************************************************************)
(* agent_complete.py: the monolithic pipeline's own steps and edges        *)
(***************************************************************************)
MONO_VERIFY_FALLBACK ==
    [confirmed |-> FALSE, confidence |-> 0,
     risk_factors |-> "error", final_reasoning |-> "abort"]

\* react_verify: whatever json.loads gives (an object or not), the fallback on
\* any exception
react_verify(reply) ==
    IF reply.kind \in {"api_error", "garbage"}
    THEN Object(MONO_VERIFY_FALLBACK)
    ELSE reply

\* the conditional edge after react_verify; .get on a value that is not a
\* dict raises
react_verify_edge(verify_result) ==
    IF verify_result.kind # "object" THEN "raise"
    ELSE IF Get(verify_result.obj, "confirmed", FALSE) THEN "notify_user"
    ELSE "END"

(***************************************************************************)
(* Functions called on their own, on inputs the pipeline may not reach     *)
(***************************************************************************)
Pipeline == <<pc, state, wait, batch, mon, hist>>

Schedulers == <<loop, hb, idle>>

\* node_react_verify followed by its conditional edge
CallReactVerify ==
    /\ fcall = NoCall
    /\ \E reply \in VerifyReplies :
         LET verify_result == react_verify(reply) IN
         fcall' = [fn            |-> "node_react_verify",
                   reply         |-> reply,
                   verify_result |-> verify_result,
                   next          |-> react_verify_edge(verify_result)]
    /\ UNCHANGED <<Pipeline, Schedulers>>

\* run_step5 followed by node_step5 and its conditional edge
CallRunStep5 ==
    /\ fcall = NoCall
    /\ \E reply \in VerifyReplies :
         LET result == run_step5(reply) IN
         fcall' = [fn     |-> "run_step5",
                   reply  |-> reply,
                   result |-> result,
                   next   |-> Route("step5", node_step5(InitialState, result))]
    /\ UNCHANGED <<Pipeline, Schedulers>>

\* detect_slowdown followed by node_step4
CallDetectSlowdown ==
    /\ fcall = NoCall
    /\ \E feed \in IntradayFeeds,
          reply \in SlowdownReplies \cup
                    {Object([slowing |-> FALSE, confidence |-> 75, reasoning |-> "rising"]),
                     Object([slowing |-> FALSE, confidence |-> 69, reasoning |-> "unsure"])},
          vol \in VolatilityFeeds, pre \in {19900, 20000} :
         LET result == detect_slowdown(feed, reply, vol, pre) IN
         fcall' = [fn     |-> "detect_slowdown",
                   feed   |-> feed,
                   reply  |-> reply,
                   vol    |-> vol,
                   pre    |-> pre,
                   result |-> result,
                   abort_reason |-> node_step4(InitialState, result).abort_reason]
    /\ UNCHANGED <<Pipeline, Schedulers>>

\* the ways the volatility lookup answers: the history call raises, fewer than
\* 5 closes come back, the numpy computation raises, or a volatility is computed
StopLossVolFeeds ==
    {[ok |-> FALSE, vol |-> 0, why |-> w] :
        w \in {"history_error", "few_closes", "std_error"}}
    \cup {[ok |-> TRUE, vol |-> v, why |-> ""] : v \in {150, 200, 201, 300, 301, 350}}

CallCalculateStopLoss ==
    /\ fcall = NoCall
    /\ \E vol \in StopLossVolFeeds, short_price \in {20000, 21600, 24000} :
         fcall' = [fn          |-> "calculate_stop_loss",
                   vol         |-> vol,
                   short_price |-> short_price,
                   result      |-> calculate_stop_loss(vol, short_price)]
    /\ UNCHANGED <<Pipeline, Schedulers>>

\* the ways the index lookup answers: the history call raises, fewer than
\* two closes come back, or a day-over-day change is computed
Step3IndexFeeds ==
    {[ok |-> FALSE, change |-> 0, why |-> w] : w \in {"history_error", "one_close"}}
    \cup {[ok |-> TRUE, change |-> c, why |-> ""] : c \in {-250, -200, -199, 50}}

Step3PriceFeeds ==
    {NoPrice, Price(0), Price(1619), Price(1620), Price(21599), Price(21600)}

Step3PrePrices == {-100, 0, 1500, 20000}

\* run_step3 followed by node_step3 and its conditional edge
CallRunStep3 ==
    /\ fcall = NoCall
    /\ \E spy \in Step3IndexFeeds, qqq \in Step3IndexFeeds,
          price \in Step3PriceFeeds, pre \in Step3PrePrices :
         LET result == run_step3(spy, qqq, price, pre) IN
         fcall' = [fn     |-> "run_step3",
                   spy    |-> spy,
                   qqq    |-> qqq,
                   price  |-> price,
                   pre    |-> pre,
                   result |-> result,
                   next   |-> Route("step3", node_step3(InitialState, result))]
    /\ UNCHANGED <<Pipeline, Schedulers>>

\* a surge that stalls at 216.00: the last move is flat and the last volume is
\* half the prior average (rules 1 and 2), with no pullback from the peak
StalledAt216 == Bars(Flat(7, 21600), Flat(6, 100) \o <<50>>)

\* one ticker taken through the stages in pipeline order: run_step3, then
\* detect_slowdown, then one pass of the monitor loop on a short entered at
\* the slowdown price, then execute_cover of 30 shares at the monitored price
CallPipelineStages ==
    /\ fcall = NoCall
    /\ \E pre \in {17600, 20000}, monitored \in {20951, 20952, 20953} :
         LET short_price == 21600
             step3     == run_step3([ok |-> TRUE, change |-> 50],
                                    [ok |-> TRUE, change |-> 50],
                                    Price(short_price), pre)
             slowdown  == detect_slowdown(
                              StalledAt216,
                              Object([slowing |-> TRUE, confidence |-> 75,
                                      reasoning |-> "fading"]),
                              [ok |-> TRUE, vol |-> 350], pre)
             stop_loss == calculate_stop_loss([ok |-> TRUE, vol |-> 350], short_price)
             cover     == execute_cover(short_price, 30, EmptyDict, TRUE,
                                        [i \in 1..3 |-> [ok |-> TRUE, fill |-> monitored]])
         IN fcall' = [fn        |-> "pipeline_stages",
                      pre       |-> pre,
                      monitored |-> monitored,
                      step3     |-> step3,
                      slowdown  |-> slowdown,
                      stop_loss |-> stop_loss,
                      exit      |-> MonitorTick(monitored, short_price, stop_loss),
                      cover     |-> cover]
    /\ UNCHANGED <<Pipeline, Schedulers>>

\* intraday windows handed to check_hard_rules and find_surge_peak directly, as
\* the unit tests do: short, empty and zero-priced windows included
HardRulePrices ==
    {<< >>, <<24000>>, <<0, 0>>, Flat(7, 24000), Flat(6, 24000) \o <<23600>>,
     <<24500>> \o Flat(5, 24000),
     <<25000, 24500>> \o Flat(5, 24000) \o <<23600>>}

HardRuleVolumes ==
    {<< >>, Flat(6, 100) \o <<50>>, Flat(5, 100) \o <<50>>, Flat(7, 100), Flat(7, 0)}

HardRulePriceData ==
    {EmptyDict}
    \cup {[prices |-> ps, volumes |-> vs, current_price |-> c] :
            ps \in HardRulePrices, vs \in HardRuleVolumes, c \in {-100, 0, 23600, 24000}}
    \cup {[prices |-> ps] : ps \in HardRulePrices}

CallCheckHardRules ==
    /\ fcall = NoCall
    /\ \E price_data \in HardRulePriceData :
         fcall' = [fn         |-> "check_hard_rules",
                   price_data |-> price_data,
                   result     |-> check_hard_rules(price_data)]
    /\ UNCHANGED <<Pipeline, Schedulers>>

CallFindSurgePeak ==
    /\ fcall = NoCall
    /\ \E price_data \in {EmptyDict} \cup {[prices |-> ps] : ps \in HardRulePrices} :
         fcall' = [fn         |-> "find_surge_peak",
                   price_data |-> price_data,
                   result     |-> find_surge_peak(price_data)]
    /\ UNCHANGED <<Pipeline, Schedulers>>

\* short_in_batches as one call: refused before any order, or the three
\* tranches attempted with the outcomes given.  events is what the loop
\* does in order: the order of tranche i, then time.sleep(300) if i < 2
\* (i counted from 0).
short_in_batches(ticker, entry_price, connected, outcomes) ==
    LET reason == ShortRefusal(entry_price, connected) IN
    IF reason # ""
    THEN [orders |-> 0, events |-> << >>,
          result |-> [success |-> FALSE, reason |-> reason]]
    ELSE LET total_shares == TotalShares(entry_price)
             results == [i \in 1..Len(BATCH_SIZES) |->
                           ShortTranche(i, TrancheShares(total_shares, i), outcomes[i])]
             filled  == SumSeq([i \in 1..Len(BATCH_SIZES) |->
                                  IF outcomes[i].ok THEN results[i].shares ELSE 0])
             Pass[i \in 1..Len(BATCH_SIZES)] ==
                 <<[do |-> "order", batch |-> i,
                    shares |-> TrancheShares(total_shares, i)]>>
                 \o (IF i - 1 < 2 THEN <<[do |-> "sleep", batch |-> i, shares |-> 0]>>
                     ELSE << >>)
         IN [orders |-> Len(BATCH_SIZES),
             events |-> Pass[1] \o Pass[2] \o Pass[3],
             result |-> ShortResult(ticker, filled, results)]

\* invalid entry prices, and entry prices at which 10000 dollars buy 41 shares,
\* 3 shares, 2 shares and no share
ShortEntryPrices == {-100, 0, 24000, 333333, 333334, 2000000}

\* node_step7 -> execute_short -> short_in_batches, and the edge after step 7
CallExecuteShort ==
    /\ fcall = NoCall
    /\ \E entry_price \in ShortEntryPrices, connected \in BOOLEAN,
          outcomes \in [1..3 -> {[ok |-> FALSE, fill |-> 0], [ok |-> TRUE, fill |-> 24000]}] :
         LET short == short_in_batches("AAPL", entry_price, connected, outcomes)
             st    == node_step7(InitialState, short.result)
         IN fcall' = [fn           |-> "execute_short",
                      entry_price  |-> entry_price,
                      connected    |-> connected,
                      orders       |-> short.orders,
                      outcomes     |-> outcomes,
                      events       |-> short.events,
                      result       |-> short.result,
                      abort_reason |-> st.abort_reason,
                      next         |-> Route("step7", st)]
    /\ UNCHANGED <<Pipeline, Schedulers>>

\* the largest share count whose tranches are computed
MaxTotalShares == 120

\* the tranche sizes short_in_batches computes for total_shares
CallTrancheSizes ==
    /\ fcall = NoCall
    /\ \E total_shares \in 3..MaxTotalShares :
         fcall' = [fn           |-> "tranche_sizes",
                   total_shares |-> total_shares,
                   shares       |-> [i \in 1..Len(BATCH_SIZES)
                                       |-> TrancheShares(total_shares, i)]]
    /\ UNCHANGED <<Pipeline, Schedulers>>

\* execute_cover -> cover_in_batches for a position opened by
\* short_in_batches with all three orders accepted: total_shares is the
\* total_shares_shorted of the entry, bought the shares of the cover orders
\* that were accepted
CallExecuteCover ==
    /\ fcall = NoCall
    /\ \E entry_total \in 3..MaxTotalShares, outcomes \in [1..3 -> CoverOutcomes] :
         LET shorted == SumSeq([i \in 1..Len(BATCH_SIZES)
                                  |-> TrancheShares(entry_total, i)])
             batches == CoverResults(shorted, outcomes)
         IN fcall' = [fn           |-> "execute_cover",
                      entry_total  |-> entry_total,
                      total_shares |-> shorted,
                      outcomes     |-> outcomes,
                      bought       |-> SumSeq([i \in 1..3 |->
                                          Get(batches[i], "shares", 0)]),
                      result       |-> cover_in_batches(shorted, TRUE, outcomes)]
    /\ UNCHANGED <<Pipeline, Schedulers>>
\* agent_complete.check_market_health: the two history calls and the
\* arithmetic are inside one try, whose except reports the market unhealthy
mono_check_market_health(spyFeed, qqqFeed) ==
    IF ~spyFeed.ok \/ ~qqqFeed.ok
    THEN [healthy |-> FALSE, spy_change |-> 0, qqq_change |-> 0]
    ELSE [healthy    |-> spyFeed.change > -200 /\ qqqFeed.change > -200,
          spy_change |-> spyFeed.change, qqq_change |-> qqqFeed.change]

\* agent_complete.build_graph: the number of the last node a run enters, from
\* check_earnings (1) to execute_short (7).  g holds what the gateways answer.
\* detect_surge and detect_slowdown of agent_complete.py compute surging and
\* trigger as those of step3 and step4 do.
mono_gates(g) ==
    LET earnings_list == get_earnings_within_7_days(g.calendar, g.prices)
        pre           == get_pre_earnings_price(g.prices[earnings_list[1].ticker])
        earnings_beat == Put(g.earnings.obj, "ticker", earnings_list[1].ticker)
        market        == mono_check_market_health(g.spy, g.qqq)
        abort_reason  == IF market.healthy THEN "" ELSE "Market unhealthy"
        surge_result  == IF market.healthy THEN detect_surge(g.price, pre)
                         ELSE [surging |-> FALSE]
        slowdown      == detect_slowdown(g.intraday, g.slowdown, g.vol, pre)
        verify_result == react_verify(g.verify)
    IN IF earnings_list = << >> THEN 1
       ELSE IF ~(Get(earnings_beat, "beat", FALSE)
                 /\ Get(earnings_beat, "beat_pct", 0) >= EPS_BEAT_THRESHOLD) THEN 2
       ELSE IF ~(surge_result.surging /\ abort_reason = "") THEN 3
       ELSE IF ~Get(slowdown, "trigger", FALSE) THEN 4
       ELSE IF react_verify_edge(verify_result) # "notify_user" THEN 5
       ELSE IF ~g.approved THEN 6
       ELSE 7

\* nodes.build_graph: the number of the last node a run enters, from step1 (1)
\* to step7 (7), on the same answers
modular_gates(g) ==
    LET s1 == node_step1(InitialState, get_earnings_within_7_days(g.calendar, g.prices))
        s2 == node_step2(s1, check_earnings_beat(s1.ticker, g.earnings))
        s3 == node_step3(s2, run_step3(g.spy, g.qqq, g.price, s2.pre_earnings_price))
        s4 == node_step4(s3, detect_slowdown(g.intraday, g.slowdown, g.vol,
                                             s3.pre_earnings_price))
        s5 == node_step5(s4, run_step5(g.verify))
        s6 == node_step6(s5, g.approved)
    IN IF Route("step1", s1) = "END" THEN 1
       ELSE IF Route("step2", s2) = "END" THEN 2
       ELSE IF Route("step3", s3) = "END" THEN 3
       ELSE IF Route("step4", s4) = "END" THEN 4
       ELSE IF Route("step5", s5) = "END" THEN 5
       ELSE IF Route("step6", s6) = "END" THEN 6
       ELSE 7

\* what the gateways answer to one run of either pipeline: a calendar, the
\* judgments as JSON objects, the index feeds (failing or not), the prices
\* and the approver's reply
GatewayAnswers ==
    [calendar : {NoDates, [NoDates EXCEPT !["NVDA"] = In(7)]},
     prices   : {[t \in Tickers |-> Price(17600)]},
     earnings : {Object([beat |-> TRUE, beat_pct |-> 10, confidence |-> 80,
                         reason |-> "beat"]),
                 Object([beat |-> TRUE, beat_pct |-> 9, confidence |-> 80,
                         reason |-> "small"])},
     spy      : {[ok |-> FALSE, change |-> 0], [ok |-> TRUE, change |-> -250],
                 [ok |-> TRUE, change |-> 50]},
     qqq      : {[ok |-> FALSE, change |-> 0], [ok |-> TRUE, change |-> 50]},
     price    : {Price(18000), Price(21600)},
     intraday : {StalledAt216},
     slowdown : {Object([slowing |-> TRUE, confidence |-> 75, reasoning |-> "fading"]),
                 Object([slowing |-> TRUE, confidence |-> 69, reasoning |-> "unsure"])},
     vol      : {[ok |-> TRUE, vol |-> 350]},
     verify   : {r \in VerifyReplies : r.kind = "object"},
     approved : BOOLEAN]

\* both graphs run on the same answers of the gateways
CallBuildGraphs ==
    /\ fcall = NoCall
    /\ \E g \in GatewayAnswers :
         fcall' = [fn      |-> "build_graph",
                   g       |-> g,
                   mono    |-> mono_gates(g),
                   modular |-> modular_gates(g)]
    /\ UNCHANGED <<Pipeline, Schedulers>>

FnNext ==
    \/ CallReactVerify
    \/ CallRunStep5
    \/ CallDetectSlowdown
    \/ CallCalculateStopLoss
    \/ CallRunStep3
    \/ CallPipelineStages
    \/ CallCheckHardRules
    \/ CallFindSurgePeak
    \/ CallTrancheSizes
    \/ CallExecuteShort
    \/ CallExecuteCover
    \/ CallBuildGraphs

FnSpec == Init /\ [][FnNext]_vars

(***************************************************************************)
(* pipeline/nodes.py: a run from the return of node_step7 on               *)
(***************************************************************************)
\* node_step7 has returned: execute_short was refused, or its three orders
\* were placed with the outcomes given; stop_loss is the entry price plus 5%
\* or plus 8%.  The edge after step 7 has been taken.
ExitInit ==
    /\ fcall = NoCall
    /\ loop = NoLoop
    /\ hb = NoHeartbeat
    /\ idle = NoIdle
    /\ wait = NoWait
    /\ batch = NoBatch
    /\ mon = NoMon
    /\ \E entry_price \in {24000, 333334}, connected \in BOOLEAN,
          pct \in {STOP_LOSS_LOW_VOL, STOP_LOSS_HIGH_VOL},
          outcomes \in [1..3 -> {[ok |-> FALSE, fill |-> 0], [ok |-> TRUE, fill |-> 24000]}] :
         LET st6   == [InitialState EXCEPT
                         !.ticker = STOCKS[1],
                         !.approved = TRUE,
                         !.slowdown_result =
                             [trigger       |-> TRUE,
                              current_price |-> entry_price,
                              stop_loss     |-> RoundDiv(entry_price * (100 + pct), 100)]]
             short == short_in_batches(st6.ticker, entry_price, connected, outcomes)
             st    == node_step7(st6, short.result)
         IN /\ state = st
            /\ pc = Route("step7", st)
            /\ hist = [nodes         |-> <<"step7">>,
                       replies       |-> [step2 |-> "none", step4 |-> "none", step5 |-> "none"],
                       approval      |-> "yes",
                       orders        |-> short.orders,
                       monitor_calls |-> << >>,
                       covers        |-> 0,
                       records       |-> 0]

ExitNext ==
    \/ NodeStep8_9
    \/ MonitorPoll
    \/ MonitorTimeout
    \/ Cover
    \/ NodeStep10

\* every sleep, price fetch and broker call returns
ExitSpec == ExitInit /\ [][ExitNext]_vars /\ WF_vars(ExitNext)

(***************************************************************************)
(* main.py: main_loop, one thread                                          *)
(***************************************************************************)
\* the number of loop iterations followed
MaxLoopIterations == 4

\* mutation: the run is started in the background and the loop goes on
asyncio_run_in_background(l) ==
    [l EXCEPT !.pc = "sleep", !.active = @ + 1, !.phase = "gates", !.runs = @ + 1]

\* result = asyncio.run(run_pipeline()): the loop's thread is inside the run
\* until it returns or raises
asyncio_run(l) ==
    [l EXCEPT !.pc = "pipeline", !.active = @ + 1, !.phase = "gates", !.runs = @ + 1]

\* a scheduler tick made by the loop; ticks_in_run counts those made while a
\* pipeline run is in progress
LoopTick(l, scheduler) ==
    LET l1 == IF scheduler = "heartbeat"
              THEN [l EXCEPT !.hb_ticks = @ + 1]
              ELSE [l EXCEPT !.idle_ticks = @ + 1]
    IN IF l.active > 0 THEN [l1 EXCEPT !.ticks_in_run = @ + 1] ELSE l1

\* mutation: the final state of a run that opened a position lists it
run_pipeline_reports_positions(opened) ==
    LET final == [InitialState EXCEPT !.ticker = STOCKS[1], !.approved = opened]
    IN IF opened THEN Put(final, "current_positions", <<final.ticker>>) ELSE final

\* run_pipeline: the final state the graph returns has the keys of the
\* initial AgentState, whatever the nodes wrote into them
run_pipeline(opened) ==
    [InitialState EXCEPT !.ticker = STOCKS[1], !.approved = opened]

\* mutation: the outer handler ends the loop on any exception
main_loop_except_ends(l, exc) ==
    [l EXCEPT !.raised = exc, !.caught = "outer", !.pc = "stopped"]

\* the handlers of the outer try: KeyboardInterrupt breaks out of the loop,
\* any other exception is reported and the loop sleeps 60 s and goes on
main_loop_except(l, exc) ==
    IF exc = "KeyboardInterrupt"
    THEN [l EXCEPT !.raised = exc, !.caught = "outer", !.pc = "stopped"]
    ELSE [l EXCEPT !.raised = exc, !.caught = "outer", !.pc = "sleep",
                   !.sleep_secs = 60]

\* one pass of the while body up to its sleep: the heartbeat tick, then a
\* pipeline run in market hours, the idle tick otherwise.  fault is where
\* the pass raises, if it does: in the heartbeat tick, in the idle tick, or
\* by a keyboard interrupt.
LoopIteration ==
    /\ loop.pc = "top"
    /\ loop.iterations < MaxLoopIterations
    /\ \E market_hours \in BOOLEAN, weekend \in BOOLEAN,
          fault \in {"none", "heartbeat", "idle", "interrupt"} :
         /\ ~(market_hours /\ weekend)
         /\ LET l0 == [loop EXCEPT !.iterations = @ + 1, !.branch = "none",
                                   !.raised = "none", !.caught = "none",
                                   !.market_hours = market_hours,
                                   !.has_position = loop.current_positions # << >>]
                l1 == LoopTick(l0, "heartbeat") IN
            loop' = IF fault = "heartbeat" THEN main_loop_except(l0, "Exception")
                    ELSE IF fault = "interrupt"
                         THEN main_loop_except(l1, "KeyboardInterrupt")
                    ELSE IF market_hours
                         THEN [asyncio_run(l1) EXCEPT !.sleep_secs = 300,
                                                      !.branch = "pipeline"]
                    ELSE IF fault = "idle"
                         THEN main_loop_except([l1 EXCEPT !.branch = "idle"],
                                               "Exception")
                    ELSE [LoopTick(l1, "idle") EXCEPT
                            !.pc = "sleep", !.branch = "idle",
                            !.sleep_secs = IF weekend THEN 3600 * 4 ELSE 1800]
    /\ UNCHANGED <<Pipeline, fcall, hb, idle>>

\* the run started by the loop goes through its gates, may enter a position,
\* monitors it and covers it; it may end at any gate or raise
RunProgress ==
    /\ loop.active > 0
    /\ \E next \in {"entering", "monitoring", "covering", "done"} :
         /\ \/ loop.phase = "gates" /\ next \in {"entering", "done"}
            \/ loop.phase = "entering" /\ next \in {"monitoring", "done"}
            \/ loop.phase = "monitoring" /\ next = "covering"
            \/ loop.phase = "covering" /\ next = "done"
         /\ loop' = [loop EXCEPT !.phase = next,
                                 !.opened = @ \/ next = "monitoring"]
    /\ UNCHANGED <<Pipeline, fcall, hb, idle>>

\* run_pipeline returns or raises; an exception is reported by the inner
\* handler and the loop goes on to its sleep, a keyboard interrupt reaches
\* the outer handlers
RunReturns ==
    /\ loop.active > 0
    /\ loop.phase = "done"
    /\ \E outcome \in {"returns", "Exception", "KeyboardInterrupt"} :
         LET l1 == [loop EXCEPT !.active = @ - 1, !.phase = "none"]
             result    == run_pipeline(loop.opened)
             positions == Get(result, "current_positions", << >>)
         IN loop' = IF outcome = "returns"
                    THEN [l1 EXCEPT !.pc = "sleep",
                                    !.current_positions =
                                        IF positions # << >> THEN positions ELSE @]
                    ELSE IF outcome = "Exception"
                         THEN [l1 EXCEPT !.pc = "sleep", !.raised = outcome,
                                         !.caught = "inner"]
                    ELSE main_loop_except(l1, outcome)
    /\ UNCHANGED <<Pipeline, fcall, hb, idle>>

\* time.sleep returns
LoopSleep ==
    /\ loop.pc = "sleep"
    /\ loop' = [loop EXCEPT !.pc = "top"]
    /\ UNCHANGED <<Pipeline, fcall, hb, idle>>

LoopNext ==
    \/ LoopIteration
    \/ RunProgress
    \/ RunReturns
    \/ LoopSleep

LoopSpec == Init /\ [][LoopNext]_vars

(***************************************************************************)
(* tools/heartbeat.py: HeartbeatScheduler                                  *)
(***************************************************************************)
\* 30 * 60
HEARTBEAT_INTERVAL_MARKET == 1800

\* 2 * 60 * 60
HEARTBEAT_INTERVAL_OFFHOURS == 7200

\* 15 * 60
HEARTBEAT_INTERVAL_POSITION == 900

\* time.time() when the scheduler is constructed, seconds since the epoch
StartClock == 1700000000

\* how long the scheduler is followed, in seconds
MaxHeartbeatSecs == 7500

\* mutation: market hours take precedence over an open position
get_interval_market_first(is_market_hours, has_position) ==
    IF is_market_hours THEN HEARTBEAT_INTERVAL_MARKET
    ELSE IF has_position THEN HEARTBEAT_INTERVAL_POSITION
    ELSE HEARTBEAT_INTERVAL_OFFHOURS

get_interval(is_market_hours, has_position) ==
    IF has_position THEN HEARTBEAT_INTERVAL_POSITION
    ELSE IF is_market_hours THEN HEARTBEAT_INTERVAL_MARKET
    ELSE HEARTBEAT_INTERVAL_OFFHOURS

\* HeartbeatScheduler(); WECHAT_WEBHOOK_URL is read once from the environment
HeartbeatSchedulerNew ==
    /\ ~hb.constructed
    /\ \E webhook \in BOOLEAN :
         hb' = [constructed |-> TRUE, webhook |-> webhook, now |-> StartClock,
                last_sent |-> 0, send_count |-> 0, ticked |-> FALSE,
                tick |-> [returned |-> FALSE]]
    /\ UNCHANGED <<Pipeline, fcall, loop, idle>>

\* tick(positions, is_market_hours, has_position); send_ok is what
\* send_heartbeat returns if it is called.  The tick is recorded with the
\* values of _last_sent and _send_count it found.
HeartbeatTick ==
    /\ hb.constructed
    /\ \E is_market_hours \in BOOLEAN, has_position \in BOOLEAN, send_ok \in BOOLEAN :
         LET interval == get_interval(is_market_hours, has_position)
             due      == hb.now - hb.last_sent >= interval
             marked   == due /\ (send_ok \/ ~hb.webhook)
         IN hb' = [hb EXCEPT
                     !.last_sent  = IF marked THEN hb.now ELSE @,
                     !.send_count = IF marked THEN @ + 1 ELSE @,
                     !.ticked     = TRUE,
                     !.tick       = [first           |-> ~hb.ticked,
                                     returned        |-> due,
                                     send_called     |-> due,
                                     send_ok         |-> due /\ send_ok,
                                     is_market_hours |-> is_market_hours,
                                     has_position    |-> has_position,
                                     now             |-> hb.now,
                                     last_sent       |-> hb.last_sent,
                                     send_count      |-> hb.send_count]]
    /\ UNCHANGED <<Pipeline, fcall, loop, idle>>

\* the clock moves on between two ticks
HeartbeatClock ==
    /\ hb.constructed
    /\ \E secs \in {300, 900, 1800} :
         /\ hb.now + secs <= StartClock + MaxHeartbeatSecs
         /\ hb' = [hb EXCEPT !.now = @ + secs]
    /\ UNCHANGED <<Pipeline, fcall, loop, idle>>

HeartbeatNext ==
    \/ HeartbeatSchedulerNew
    \/ HeartbeatTick
    \/ HeartbeatClock

HeartbeatSpec == Init /\ [][HeartbeatNext]_vars

(***************************************************************************)
(* scheduler/idle_scheduler.py: IdleTaskScheduler (tools/idle_tasks.py has *)
(* the same class with _should_run and _mark_done for _due and _mark)      *)
(***************************************************************************)
TASK_INTERVALS ==
    [news |-> 1 * 3600, sentiment |-> 1 * 3600, memory |-> 2 * 3600,
     backtest |-> 24 * 3600]

\* the order in which tick looks at the tasks
TaskOrder == <<"news", "sentiment", "memory", "backtest">>

\* how long the scheduler is followed, in seconds
MaxIdleSecs == 7200

\* datetime.now().hour when the scheduler is constructed
StartHour == 23

\* datetime.now().hour when time.time() is now
LocalHour(now) == ((now - StartClock) \div 3600 + StartHour) % 24

\* mutation: a task is due at any time after its last run
_due_any_time(task, now, last_run) == now - last_run[task] >= 0

_due(task, now, last_run) == now - last_run[task] >= TASK_INTERVALS[task]

\* mutation: only an open position makes tick return at once
tick_skips_position_only(has_position, is_running) == has_position

\* the first test of tick
tick_skips(has_position, is_running) == has_position \/ is_running

\* what a task needs besides being due
TaskReady(i, task) ==
    CASE task = "news"      -> TRUE
      [] task = "sentiment" -> i.news_cache
      [] task = "memory"    -> i.sentiment_cache
      [] task = "backtest"  -> 0 <= LocalHour(i.now) /\ LocalHour(i.now) < 2

\* tick goes on to the next task, or leaves the try block after the last one
AfterTask(i) ==
    IF i.task < Len(TaskOrder) THEN [i EXCEPT !.task = @ + 1, !.pc = "check"]
    ELSE [i EXCEPT !.pc = "finally"]

\* mutation: the flag is cleared only when no task raised
tick_finally_unless_raised(i) ==
    IF i.raised THEN i ELSE [i EXCEPT !.is_running = FALSE]

\* the finally clause of tick
tick_finally(i) == [i EXCEPT !.is_running = FALSE]

\* IdleTaskScheduler(); the caches of the idle modules start empty
IdleTaskSchedulerNew ==
    /\ ~idle.constructed
    /\ idle' = [constructed |-> TRUE, now |-> StartClock,
                last_run |-> [news |-> 0, sentiment |-> 0, memory |-> 0,
                              backtest |-> 0],
                is_running |-> FALSE, news_cache |-> FALSE,
                sentiment_cache |-> FALSE, pc |-> "idle", task |-> 1,
                ran |-> <<>>, raised |-> FALSE, logged |-> FALSE,
                entry |-> [made |-> FALSE], ret |-> [made |-> FALSE]]
    /\ UNCHANGED <<Pipeline, fcall, loop, hb>>

\* tick(has_position) is called, possibly while another tick is between two
\* tasks: it returns [] at once or sets _is_running and enters the try
\* block.  The call is recorded with what it found and what it left.
IdleTick ==
    /\ idle.constructed
    /\ \E has_position \in BOOLEAN :
         LET skips   == tick_skips(has_position, idle.is_running)
             entered == IF skips THEN idle
                        ELSE [idle EXCEPT !.is_running = TRUE, !.ran = <<>>,
                                          !.raised = FALSE, !.logged = FALSE,
                                          !.task = 1, !.pc = "check"]
         IN idle' = [entered EXCEPT
                       !.entry = [made         |-> TRUE,
                                  has_position |-> has_position,
                                  was_running  |-> idle.is_running,
                                  started      |-> ~skips,
                                  returned     |-> skips,
                                  result       |-> <<>>,
                                  unchanged    |->
                                      /\ entered.last_run = idle.last_run
                                      /\ entered.is_running = idle.is_running]]
    /\ UNCHANGED <<Pipeline, fcall, loop, hb>>

\* tick tests whether the task it has come to is due and has what it needs
IdleTaskCheck ==
    /\ idle.constructed
    /\ idle.pc = "check"
    /\ LET task == TaskOrder[idle.task]
       IN idle' = IF _due(task, idle.now, idle.last_run) /\ TaskReady(idle, task)
                  THEN [idle EXCEPT !.pc = "run"]
                  ELSE AfterTask(idle)
    /\ UNCHANGED <<Pipeline, fcall, loop, hb>>

\* the task returns and is marked, or raises before or after it has filled
\* its cache; collect_all_news stores an entry for every ticker,
\* run_sentiment stores what the analysis returned, which may be nothing.
\* The except clause reports through log_error.
IdleTaskRun ==
    /\ idle.constructed
    /\ idle.pc = "run"
    /\ \E outcome \in {"ok", "raise_early", "raise_late"}, results \in BOOLEAN :
         LET task   == TaskOrder[idle.task]
             filled == IF outcome = "raise_early" THEN idle
                       ELSE IF task = "news"
                            THEN [idle EXCEPT !.news_cache = TRUE]
                       ELSE IF task = "sentiment"
                            THEN [idle EXCEPT !.sentiment_cache = results]
                       ELSE idle
         IN idle' = IF outcome = "ok"
                    THEN AfterTask([filled EXCEPT
                                      !.last_run[task] = idle.now,
                                      !.ran = Append(@, task)])
                    ELSE [filled EXCEPT !.raised = TRUE, !.logged = TRUE,
                                        !.pc = "finally"]
    /\ UNCHANGED <<Pipeline, fcall, loop, hb>>

\* the finally clause, then return ran
IdleTickReturns ==
    /\ idle.constructed
    /\ idle.pc = "finally"
    /\ LET done == tick_finally(idle)
       IN idle' = [done EXCEPT
                     !.pc  = "idle",
                     !.ret = [made       |-> TRUE,
                              ran        |-> idle.ran,
                              raised     |-> idle.raised,
                              logged     |-> idle.logged,
                              is_running |-> done.is_running]]
    /\ UNCHANGED <<Pipeline, fcall, loop, hb>>

\* the clock moves on, between two ticks or while a task runs
IdleClock ==
    /\ idle.constructed
    /\ \E secs \in {1800, 3600} :
         /\ idle.now + secs <= StartClock + MaxIdleSecs
         /\ idle' = [idle EXCEPT !.now = @ + secs]
    /\ UNCHANGED <<Pipeline, fcall, loop, hb>>

IdleNext ==
    \/ IdleTaskSchedulerNew
    \/ IdleTick
    \/ IdleTaskCheck
    \/ IdleTaskRun
    \/ IdleTickReturns
    \/ IdleClock

IdleSpec == Init /\ [][IdleNext]_vars

(***************************************************************************)
(* Properties                                                              *)
(***************************************************************************)
RanNode(node) == \E i \in 1..Len(hist.nodes) : hist.nodes[i] = node

\* C1: execute_short (step 7) is invoked, and a short order is placed, only
\* in a run where step 1 found a ticker, step 2 qualified, step 3 found the
\* market healthy and surging, step 4 triggered, step 5 said proceed and
\* step 6 returned approved = true, each of them having run before step 7.
C1_ShortOnlyAfterAllGates ==
    (RanNode("step7") \/ hist.orders > 0) =>
        /\ SubSeq(hist.nodes, 1, 7)
             = <<"step1", "step2", "step3", "step4", "step5", "step6", "step7">>
        /\ state.earnings_list # << >>
        /\ Get(state.earnings_beat, "qualifies", FALSE)
        /\ Get(state.market_health, "healthy", FALSE)
        /\ Get(state.surge_result, "surging", FALSE)
        /\ Get(state.slowdown_result, "trigger", FALSE)
        /\ Get(state.verify_result, "proceed", FALSE)
        /\ state.approved

C1_ShortOrderPlaced == RanNode("step7") /\ hist.orders > 0 /\ state.approved

\* C2: once abort_reason is non-empty no node executes any more (the run is
\* at END) and abort_reason keeps its value; a node that sets abort_reason
\* sends the run directly to END.
C2_AbortIsFinal ==
    [][/\ state'.abort_reason # "" => pc' = "END"
       /\ state.abort_reason # "" =>
            /\ state'.abort_reason = state.abort_reason
            /\ hist'.nodes = hist.nodes]_vars

C2_AbortedBeforeEntry ==
    /\ state.abort_reason # ""
    /\ pc = "END"
    /\ hist.nodes = <<"step1", "step2", "step3">>

\* what C3 calls an approving reply: inbound, sent after the alert, body
\* starting with YES once stripped and upper-cased
IsFreshYes(msg, sent_at) ==
    /\ msg.has_date
    /\ msg.date_sent > sent_at
    /\ msg.direction = "inbound"
    /\ msg.has_body
    /\ StartsWith(StripUpper(msg.body), <<"Y", "E", "S">>)

IsFreshNo(msg, sent_at) ==
    /\ msg.has_date
    /\ msg.date_sent > sent_at
    /\ msg.direction = "inbound"
    /\ msg.has_body
    /\ StartsWith(StripUpper(msg.body), <<"N", "O">>)

\* C3: step 6 returns approved = true only when the listing just polled holds
\* an inbound reply starting with YES sent after sent_at; a listing led by a
\* fresh NO, a timeout and a failed send give approved = false, the run ends
\* at step 6 with abort_reason set, and no order has been placed.
C3_ApprovalOnlyOnFreshYes ==
    [][/\ (pc = "step6_scan" /\ state'.approved) =>
            /\ wait.messages.ok
            /\ \E i \in 1..Len(wait.messages.msgs) :
                 IsFreshYes(wait.messages.msgs[i], wait.sent_at)
       /\ (/\ pc = "step6_scan"
           /\ wait.messages.ok
           /\ wait.messages.msgs # << >>
           /\ IsFreshNo(wait.messages.msgs[1], wait.sent_at)) =>
            hist'.approval = "no"
       /\ hist'.approval \in {"no", "timeout", "sms_failed"} =>
            /\ ~state'.approved
            /\ pc' = "END"
            /\ state'.abort_reason = "Step 6: user rejected or timed out"
            /\ hist'.orders = 0
       /\ state'.approved => hist'.approval = "yes"]_vars

C3_ApprovedByReply == pc = "step7" /\ state.approved /\ hist.approval = "yes"

\* C4: when none of the three tranches fills (each raised or reported fill
\* price 0) short_in_batches returns success = false, step 7 aborts, and
\* monitor_position and record_trade are never called.
C4_NoFillMeansFailure ==
    LET batches == Get(state.short_result, "batches", << >>) IN
    (/\ Len(batches) = Len(BATCH_SIZES)
     /\ \A i \in 1..Len(batches) : batches[i].fill_price = 0) =>
        /\ ~state.short_result.success
        /\ state.abort_reason # ""
        /\ hist.monitor_calls = << >>
        /\ hist.records = 0

\* C5: at every call of monitor_position for a position with a positive
\* average fill price, the stop_loss argument is strictly above the
\* short_price argument and the take-profit target, 97% of short_price, is
\* strictly below it.
C5_StopAboveEntryAtMonitor ==
    \A i \in 1..Len(hist.monitor_calls) :
        LET call == hist.monitor_calls[i] IN
        call.short_price > 0 =>
            /\ call.stop_loss > call.short_price
            /\ call.short_price * 97 < call.short_price * 100

\* C6: monitor_position (short_price > 0) exits at the first valid sample
\* with price >= stop_loss or price <= 97% of short_price: no such sample
\* leaves the loop running, and the exit it causes is stop_loss when price >=
\* stop_loss and take_profit otherwise.
C6_ExitAtFirstTrigger ==
    LET triggers == \/ mon.last >= mon.stop_loss
                    \/ mon.last * 100 <= mon.short_price * 97
    IN (mon.short_price > 0 /\ mon.polls > 0 /\ mon.last > 0 /\ triggers) =>
        /\ pc = "step9_cover"
        /\ state.monitor_result.action =
             IF mon.last >= mon.stop_loss THEN "stop_loss" ELSE "take_profit"

\* C7: for a position whose stop_loss is above its positive short_price,
\* monitor_position returns timeout only when the price fetched at that tick
\* is neither at or above stop_loss nor at or below the target.
C7_PriceExitsBeatTimeout ==
    (/\ pc = "step9_cover"
     /\ mon.short_price > 0
     /\ mon.stop_loss > mon.short_price
     /\ state.monitor_result.action = "timeout") =>
        ~(/\ mon.last > 0
          /\ \/ mon.last >= mon.stop_loss
             \/ AtOrBelowTarget(mon.last, mon.short_price))

\* C8: a poll of the monitor loop whose fetch fails (price <= 0) leaves
\* monitor_position running with no exit recorded and no abort, short_price
\* and stop_loss as they were, and the next loop test at least one poll
\* interval later on the same clock.
C8_FailedFetchRetries ==
    [][(/\ pc = "step8_loop"
        /\ mon.elapsed < MaxSecs
        /\ mon'.polls = mon.polls + 1
        /\ mon'.last <= 0) =>
           /\ pc' = "step8_loop"
           /\ state' = state
           /\ mon'.short_price = mon.short_price
           /\ mon'.stop_loss = mon.stop_loss
           /\ mon'.elapsed >= mon.elapsed + MONITOR_POLL_INTERVAL_SEC]_vars

C8_FetchFailedInLoop ==
    /\ pc = "step8_loop"
    /\ mon.polls > 0
    /\ mon.last = 0
    /\ state.monitor_result = EmptyDict

\* C9: record_trade is called at most once in a run, and only when
\* execute_short and execute_cover both returned success = true.
C9_RecordOnlyCompletedTrades ==
    /\ hist.records <= 1
    /\ hist.records > 0 =>
         /\ Get(state.short_result, "success", FALSE)
         /\ Get(state.cover_result, "success", FALSE)

\* C10: a judgment that is not JSON, or a call that raises, in step 2, 4 or 5
\* gives the analyzer's fallback (beat false, confidence 0, confirmed false),
\* the stage sets abort_reason, and the run reaches neither step 6 nor step 7.
C10_MalformedJudgmentAborts ==
    LET bad(step) == hist.replies[step] \in {"garbage", "api_error"} IN
    /\ bad("step2") =>
         /\ ~state.earnings_beat.beat
         /\ ~state.earnings_beat.qualifies
    /\ bad("step4") =>
         /\ state.slowdown_result.ai_analysis.confidence = 0
         /\ ~state.slowdown_result.trigger
    /\ bad("step5") =>
         /\ ~state.verify_result.confirmed
         /\ state.verify_result.confidence = 0
         /\ ~state.verify_result.proceed
    /\ (bad("step2") \/ bad("step4") \/ bad("step5")) =>
         /\ state.abort_reason # ""
         /\ pc = "END"
         /\ ~RanNode("step6")
         /\ ~RanNode("step7")
         /\ hist.orders = 0

C10_GarbledVerification ==
    /\ hist.replies.step5 = "garbage"
    /\ hist.replies.step4 = "object"
    /\ pc = "END"

\* C11: the verification stage lets the run go on to the approval stage iff
\* the verifier's answer has confirmed = true and confidence >=
\* AI_CONFIDENCE_THRESHOLD, in the modular pipeline (run_step5, node_step5)
\* and in the monolithic one (react_verify and its edge).
C11_ProceedNeedsConfidence ==
    LET answer == IF fcall.reply.kind = "object" THEN fcall.reply.obj ELSE EmptyDict
        wanted == /\ Get(answer, "confirmed", FALSE)
                  /\ Get(answer, "confidence", 0) >= AI_CONFIDENCE_THRESHOLD
    IN /\ fcall.fn = "run_step5" => (fcall.next = "step6" <=> wanted)
       /\ fcall.fn = "node_react_verify" => (fcall.next = "notify_user" <=> wanted)

C13_StopLossTiers ==
    fcall.fn = "calculate_stop_loss" =>
        LET vol == fcall.vol
            pct == IF ~vol.ok THEN 6
                   ELSE IF vol.vol > 300 THEN 8
                   ELSE IF vol.vol > 200 THEN 6
                   ELSE 5
        IN fcall.result * 100 = fcall.short_price * (100 + pct)

\* C14: when the index lookup for SPY or for QQQ fails or has fewer than two
\* closes, step 3 does not proceed: the run aborts and the surge is not looked at.
C14_NoProceedOnMissingIndex ==
    (fcall.fn = "run_step3" /\ (~fcall.spy.ok \/ ~fcall.qqq.ok)) =>
        /\ ~fcall.result.proceed
        /\ ~fcall.result.market.healthy
        /\ fcall.next = "END"

\* C15: when the run started by a polling tick has ended, every ticker that
\* step 1 found eligible (earnings within 7 days) is the ticker the run
\* evaluated: no eligible ticker is left out of the tick.
C15_EveryEligibleTickerEvaluated ==
    (pc = "END" /\ RanNode("step1")) =>
        \A i \in 1..Len(state.earnings_list) :
            state.earnings_list[i].ticker = state.ticker

\* C16: with baseline 200.00 and price 216.00 the surge gate passes; with 2 of
\* 3 hard rules met and confidence 75 the slowdown stage triggers; with
\* volatility 3.5% the stop-loss is 233.28; a monitored price of 209.52 exits
\* with take_profit; the profit on 30 shares is 194.40.
C16_Scenario ==
    (fcall.fn = "pipeline_stages" /\ fcall.pre = 20000 /\ fcall.monitored = 20952) =>
        /\ fcall.step3.proceed
        /\ fcall.slowdown.trigger
        /\ fcall.stop_loss = 23328
        /\ fcall.exit = "take_profit"
        /\ fcall.cover.profit_loss = 19440

\* C17: surging is true exactly when the pre-earnings price and the fetched
\* price are positive and (current - pre) / pre * 100 >= SURGE_THRESHOLD; a
\* surge of exactly SURGE_THRESHOLD percent is a surge.
C17_SurgeExactAtThreshold ==
    (fcall.fn = "run_step3" /\ fcall.spy.ok /\ fcall.qqq.ok
                            /\ fcall.result.market.healthy) =>
        LET pre     == fcall.pre
            current == IF fcall.price.ok THEN fcall.price.price ELSE 0
        IN fcall.result.surge.surging
             <=> /\ pre > 0
                 /\ current > 0
                 /\ (current - pre) * 100 >= SURGE_THRESHOLD * pre

\* C18: with both index changes known, the market is healthy exactly when the
\* SPY change and the QQQ change are both strictly above -2.0%; when it is
\* not healthy, step 3 aborts and returns no surge result (the surge is not
\* evaluated), whatever the stock price is.
C18_HealthyIffBothAboveMinus2 ==
    (fcall.fn = "run_step3" /\ fcall.spy.ok /\ fcall.qqq.ok) =>
        /\ fcall.result.market.healthy
              <=> (fcall.spy.change > -200 /\ fcall.qqq.change > -200)
        /\ ~fcall.result.market.healthy =>
              /\ ~fcall.result.proceed
              /\ fcall.result.surge = EmptyDict
              /\ fcall.result.abort_reason = "Market unhealthy"
              /\ fcall.next = "END"

\* SPY is down exactly 2.0%, QQQ is up, and the stock is 8% above its
\* pre-earnings price: step 3 aborts on market health
C18_AbortAtExactlyMinus2 ==
    /\ fcall.fn = "run_step3"
    /\ fcall.spy.ok /\ fcall.spy.change = -200
    /\ fcall.qqq.ok /\ fcall.qqq.change = 50
    /\ fcall.price = Price(21600) /\ fcall.pre = 20000
    /\ ~fcall.result.market.healthy
    /\ fcall.result.surge = EmptyDict
    /\ fcall.next = "END"

\* C19: rules_met is the number of true rules among rule 1, rule 2 and rule 3,
\* and passed holds exactly when rules_met >= 2; rule 2 is false with fewer
\* than 7 volume samples, rule 3 is false unless the peak and the current
\* price are both positive, and empty input gives rules_met = 0.
C19_MajorityVote ==
    fcall.fn = "check_hard_rules" =>
        LET r       == fcall.result
            volumes == Get(fcall.price_data, "volumes", << >>)
            prices  == Get(fcall.price_data, "prices", << >>)
            current == Get(fcall.price_data, "current_price", 0)
            peak    == IF prices = << >> THEN 0 ELSE MaxSeq(LastN(prices, 6))
            count   == Cardinality({k \in {"rule1_momentum_slow", "rule2_volume_drop",
                                           "rule3_pullback"} : r[k]})
        IN /\ r.rules_met = count
           /\ r.passed <=> count >= 2
           /\ Len(volumes) < 7 => ~r.rule2_volume_drop
           /\ ~(peak > 0 /\ current > 0) => ~r.rule3_pullback
           /\ fcall.price_data = EmptyDict => r.rules_met = 0

\* rules 1 and 2 hold, rule 3 does not: the vote passes with two of three
C19_TwoOfThreePass ==
    /\ fcall.fn = "check_hard_rules"
    /\ fcall.result.rule1_momentum_slow
    /\ fcall.result.rule2_volume_drop
    /\ ~fcall.result.rule3_pullback
    /\ fcall.result.rules_met = 2
    /\ fcall.result.passed

\* C20: find_surge_peak returns 0 for an empty window, p for the window [p],
\* and otherwise the largest of the last 6 samples (of all samples when there
\* are fewer than 6), even when an earlier sample is higher.
C20_PeakOfLastSix ==
    fcall.fn = "find_surge_peak" =>
        LET prices == Get(fcall.price_data, "prices", << >>)
            n      == Len(prices)
            first  == IF n > 6 THEN n - 5 ELSE 1
            window == {prices[i] : i \in first..n}
        IN /\ n = 0 => fcall.result = 0
           /\ n = 1 => fcall.result = prices[1]
           /\ n > 0 => /\ fcall.result \in window
                       /\ \A p \in window : p <= fcall.result

\* an 8-sample series whose highest sample is older than the last 6: the peak
\* returned is below the highest sample of the series
C20_EarlierHighIgnored ==
    /\ fcall.fn = "find_surge_peak"
    /\ Len(Get(fcall.price_data, "prices", << >>)) = 8
    /\ fcall.result = 24000
    /\ \E i \in 1..2 : fcall.price_data.prices[i] > fcall.result

\* C21: for a total of T >= 3 shares the three tranche sizes are the floors of
\* 30%, 30% and 40% of T; their sum never exceeds T; for T = 100 they are
\* 30, 30 and 40.
C21_TrancheSizes ==
    fcall.fn = "tranche_sizes" =>
        LET T      == fcall.total_shares
            shares == fcall.shares
            IsFloor(n, pct) == n * 100 <= T * pct /\ T * pct < (n + 1) * 100
        IN /\ Len(shares) = 3
           /\ IsFloor(shares[1], 30) /\ IsFloor(shares[2], 30) /\ IsFloor(shares[3], 40)
           /\ shares[1] + shares[2] + shares[3] <= T
           /\ T = 100 => shares = <<30, 30, 40>>

\* 99 shares are split 29, 29, 39: two shares are left out of the tranches
C21_FloorsLeaveShares ==
    /\ fcall.fn = "tranche_sizes"
    /\ fcall.total_shares = 99
    /\ fcall.shares = <<29, 29, 39>>

\* C22: when entry_price <= 0, when floor(MAX_SHORT_POSITION_PER_STOCK /
\* entry_price) < 3, or when the broker connection fails, short_in_batches
\* returns success = false without placing an order, step 7 sets abort_reason
\* and the run ends before monitor_position.
C22_RefusedShortOpensNothing ==
    fcall.fn = "execute_short" =>
        LET p == fcall.entry_price
            refused == \/ p <= 0
                       \/ p > 0 /\ MAX_SHORT_POSITION_PER_STOCK < 3 * p
                       \/ ~fcall.connected
        IN refused => /\ ~fcall.result.success
                      /\ fcall.orders = 0
                      /\ fcall.abort_reason # ""
                      /\ fcall.next = "END"

\* the broker is connected and the entry price is positive, but 10000 dollars
\* buy only 2 shares: the short is refused
C22_TooFewSharesRefused ==
    /\ fcall.fn = "execute_short"
    /\ fcall.connected
    /\ fcall.entry_price = 333334
    /\ ~fcall.result.success
    /\ fcall.result.reason = "Too few shares"
    /\ fcall.orders = 0
    /\ fcall.next = "END"

\* C23: wait_for_approval returns False once the deadline sent_at + 300 s has
\* passed without a YES/NO reply, and it returns True only on a poll performed
\* before that deadline.
C23_NoApprovalAfterDeadline ==
    [][/\ (pc = "step6_wait" /\ ~(wait.now < wait.sent_at + APPROVAL_TIMEOUT_SEC)) =>
            ~state'.approved
       /\ (pc = "step6_scan" /\ state'.approved) =>
            wait.now < wait.sent_at + APPROVAL_TIMEOUT_SEC]_vars

\* C24: every run eventually reaches END (with an abort reason or after
\* record_trade): it stays forever neither in the approval wait, nor between
\* tranches, nor in the monitor loop, and no stage ends it with an exception.
C24_RunReachesEnd == <>(pc = "END")

\* C25: when a run of the modular pipeline is at END, abort_reason is
\* non-empty exactly when step 10 (record_trade) did not run in it.
C25_AbortReasonIffNoRecord ==
    pc = "END" =>
        /\ state.abort_reason # "" <=> ~RanNode("step10")
        /\ RanNode("step10") <=> hist.records = 1

\* a run that entered, covered and recorded a trade ends without abort reason
C25_RecordedRunEndsClean ==
    /\ pc = "END"
    /\ RanNode("step7") /\ RanNode("step10")
    /\ hist.records = 1
    /\ state.abort_reason = ""

\* C26: main_loop has at most one pipeline run in progress: a run starts only
\* after the previous one has returned, and neither the heartbeat tick nor
\* the idle tick is made while a run is in progress.
C26_OneRunAtATime ==
    /\ loop.active <= 1
    /\ loop.ticks_in_run = 0
    /\ loop.active = 1 <=> loop.pc = "pipeline"
    /\ loop.phase # "none" <=> loop.active = 1

\* the second run started by the loop is monitoring its position, after two
\* heartbeat ticks were made
C26_SecondRunMonitoring ==
    /\ loop.runs = 2
    /\ loop.active = 1
    /\ loop.phase = "monitoring"
    /\ loop.hb_ticks >= 2

\* C27: a tick sends a heartbeat exactly when now - _last_sent >= interval,
\* the interval being 15 min with a position (market hours or not), else
\* 30 min in market hours, else 2 h; the first tick of a new scheduler
\* sends; and after a successful send no heartbeat is sent and _send_count
\* stays as it is until the interval has elapsed.
C27_HeartbeatWhenDue ==
    (hb.constructed /\ hb.ticked) =>
        LET t        == hb.tick
            interval == IF t.has_position THEN 15 * 60
                        ELSE IF t.is_market_hours THEN 30 * 60
                        ELSE 2 * 60 * 60
            elapsed  == t.now - t.last_sent
        IN /\ t.send_called <=> elapsed >= interval
           /\ t.returned <=> t.send_called
           /\ t.first => t.send_called
           /\ elapsed < interval => /\ hb.send_count = t.send_count
                                    /\ hb.last_sent = t.last_sent
           /\ t.send_ok => /\ hb.send_count = t.send_count + 1
                           /\ hb.last_sent = t.now

\* 15 minutes after a successful send, in market hours with a position, the
\* tick sends again
C27_PositionIntervalInMarketHours ==
    /\ hb.constructed /\ hb.ticked /\ ~hb.tick.first
    /\ hb.tick.has_position /\ hb.tick.is_market_hours
    /\ hb.tick.last_sent > 0
    /\ hb.tick.now - hb.tick.last_sent = 15 * 60
    /\ hb.tick.send_ok
    /\ hb.send_count = hb.tick.send_count + 1

\* C28: a tick called with has_position true, or while _is_running is true,
\* starts no idle task and returns an empty list at once, and leaves
\* _last_run and _is_running as they were.
C28_TickSkips ==
    (idle.constructed /\ idle.entry.made) =>
        LET e == idle.entry
        IN (e.has_position \/ e.was_running) =>
               /\ ~e.started
               /\ e.returned /\ e.result = <<>>
               /\ e.unchanged

\* a tick without a position is called while another tick is between two
\* tasks, after news has run: it returns at once and the first tick goes on
C28_SkippedWhileRunning ==
    /\ idle.constructed /\ idle.entry.made
    /\ ~idle.entry.has_position /\ idle.entry.was_running
    /\ ~idle.entry.started /\ idle.entry.unchanged
    /\ idle.pc = "run" /\ idle.ran = <<"news">>

\* C29: when a tick that started tasks has returned, _is_running is false,
\* also when a task raised; the exception was reported through log_error,
\* the tick returned its list, and a later tick can start tasks again.
C29_FlagClearedOnReturn ==
    idle.constructed =>
        /\ idle.pc = "idle" => ~idle.is_running
        /\ idle.ret.made => /\ ~idle.ret.is_running
                            /\ idle.ret.raised => idle.ret.logged

\* after a tick in which a task raised has returned, a later tick runs a task
C29_RunsAgainAfterRaise ==
    /\ idle.constructed /\ idle.ret.made
    /\ idle.ret.raised /\ idle.ret.logged
    /\ idle.pc = "run" /\ idle.entry.started /\ ~idle.entry.was_running

\* C30: a task runs only if at least TASK_INTERVALS[task] seconds (news 1 h,
\* sentiment 1 h, memory 2 h, backtest 24 h) have passed since it last
\* completed; sentiment runs only with a non-empty news cache, memory only
\* with a non-empty sentiment cache, backtest only at a local hour in [0, 2);
\* _last_run changes only when the task completes, to the time of
\* completion; and the tasks of one tick run in the order news, sentiment,
\* memory, backtest.
C30_TasksRunWhenDueInOrder ==
    [][idle.constructed =>
        /\ \A k \in 1..Len(TaskOrder) :
             LET task == TaskOrder[k]
             IN /\ (idle.pc = "check" /\ idle.task = k /\ idle'.pc = "run") =>
                     /\ idle.now - idle.last_run[task] >=
                            CASE task = "news"      -> 3600
                              [] task = "sentiment" -> 3600
                              [] task = "memory"    -> 7200
                              [] task = "backtest"  -> 86400
                     /\ task = "sentiment" => idle.news_cache
                     /\ task = "memory" => idle.sentiment_cache
                     /\ task = "backtest" => LocalHour(idle.now) \in {0, 1}
                /\ idle'.last_run[task] # idle.last_run[task] =>
                     /\ idle.pc = "run" /\ idle.task = k
                     /\ idle'.last_run[task] = idle.now
        /\ \A a, b \in 1..Len(idle'.ran) :
             a < b => \E x, y \in 1..Len(TaskOrder) :
                         /\ x < y
                         /\ TaskOrder[x] = idle'.ran[a]
                         /\ TaskOrder[y] = idle'.ran[b]
    ]_vars

\* one hour after a tick ran news, sentiment and memory, at a local hour of
\* 0, a tick has run news, sentiment and backtest, in that order, and has
\* passed over memory, which is not yet due
C30_MemoryWaitsTwoHours ==
    /\ idle.constructed /\ idle.ret.made /\ ~idle.ret.raised
    /\ idle.ret.ran = <<"news", "sentiment", "backtest">>
    /\ idle.sentiment_cache
    /\ idle.last_run.memory > 0
    /\ idle.last_run.news - idle.last_run.memory = 3600
    /\ idle.last_run.backtest = idle.last_run.news
    /\ idle.pc = "idle"

\* C31: in an iteration of main_loop the pipeline is run only if
\* is_market_hours() was true and the idle scheduler is ticked only if it was
\* false; an exception raised by the pipeline or elsewhere in the iteration
\* is caught and the loop goes on to its sleep and the next iteration; the
\* loop ends only on KeyboardInterrupt.
C31_BranchAndRecovery ==
    /\ loop.branch = "pipeline" => loop.market_hours
    /\ loop.branch = "idle" => ~loop.market_hours
    /\ loop.active > 0 => loop.market_hours
    /\ loop.raised = "Exception" =>
          /\ loop.caught \in {"inner", "outer"}
          /\ loop.pc \in {"sleep", "top"}
    /\ loop.pc = "stopped" => loop.raised = "KeyboardInterrupt"

\* the second pipeline run raised; the inner handler caught the exception,
\* the loop has slept 300 s and is at the top of the while body again
C31_LoopGoesOnAfterPipelineError ==
    /\ loop.runs = 2 /\ loop.active = 0
    /\ loop.branch = "pipeline" /\ loop.market_hours
    /\ loop.raised = "Exception" /\ loop.caught = "inner"
    /\ loop.pc = "top" /\ loop.sleep_secs = 300
    /\ loop.iterations < MaxLoopIterations

\* C32: monitor_position terminates: a call that has entered its loop
\* returns; at the first loop check with elapsed >= MAX_DAYS_WAIT_COVER days
\* it returns action timeout, also when every fetch failed; it returns
\* stop_loss or take_profit only on a quote fetched in the loop, before the
\* holding period is over; and it returns nothing else.
C32_MonitorReturns ==
    /\ (pc = "step8_loop") ~> (pc = "step9_cover")
    /\ [][(pc = "step8_loop" /\ mon.elapsed >= MaxSecs) =>
            /\ pc' = "step9_cover"
            /\ state'.monitor_result.action = "timeout"]_vars
    /\ [](pc = "step9_cover" =>
            LET r == state.monitor_result IN
            /\ r.action \in {"stop_loss", "take_profit", "timeout"}
            /\ r.action = "timeout" => mon.elapsed >= 7 * 86400
            /\ r.action \in {"stop_loss", "take_profit"} =>
                  /\ mon.elapsed < 7 * 86400
                  /\ r.price > 0 /\ r.price = mon.last /\ mon.quotes > 0
            /\ r.action = "stop_loss" => r.price >= mon.stop_loss
            /\ r.action = "take_profit" => r.price * 100 <= mon.short_price * 97)

\* the holding period is over and monitor_position has returned timeout
\* although no fetch, the one after the loop included, gave a quote
C32_TimeoutWithoutAnyQuote ==
    /\ pc = "step9_cover"
    /\ state.monitor_result.action = "timeout"
    /\ state.monitor_result.price = 0
    /\ mon.quotes = 0 /\ mon.polls >= 3
    /\ hist.monitor_calls # << >>
    /\ mon.elapsed >= MaxSecs

\* C33: when short_in_batches places orders, tranches 1, 2 and 3 are
\* attempted in that order with a sleep after tranches 1 and 2 only; a
\* tranche whose order raised is recorded with shares 0 and fill price 0 and
\* the later tranches are still attempted; total_shares_shorted is the sum
\* of the sizes of the tranches whose order did not raise; avg_fill_price is
\* the mean, rounded to the cent, of the fill prices above 0, and 0 when
\* there are none.
C33_TranchesInOrder ==
    (fcall.fn = "execute_short" /\ fcall.orders > 0) =>
        LET T     == 1000000 \div fcall.entry_price
            size  == <<(T * 30) \div 100, (T * 30) \div 100, (T * 40) \div 100>>
            b     == fcall.result.batches
            fills == {i \in 1..3 : fcall.outcomes[i].ok /\ fcall.outcomes[i].fill > 0}
            sum   == SumSeq([i \in 1..3 |-> IF i \in fills
                                            THEN fcall.outcomes[i].fill ELSE 0])
            n     == Cardinality(fills)
        IN /\ [k \in 1..Len(fcall.events) |->
                 <<fcall.events[k].do, fcall.events[k].batch>>]
                = << <<"order", 1>>, <<"sleep", 1>>, <<"order", 2>>,
                     <<"sleep", 2>>, <<"order", 3>> >>
           /\ Len(b) = 3
           /\ \A i \in 1..3 :
                /\ b[i].batch = i
                /\ fcall.outcomes[i].ok =>
                     b[i].shares = size[i] /\ b[i].fill_price = fcall.outcomes[i].fill
                /\ ~fcall.outcomes[i].ok =>
                     b[i].shares = 0 /\ b[i].fill_price = 0
           /\ fcall.result.total_shares_shorted =
                SumSeq([i \in 1..3 |-> IF fcall.outcomes[i].ok THEN size[i] ELSE 0])
           /\ n = 0 => fcall.result.avg_fill_price = 0
           /\ n > 0 => /\ 2 * (fcall.result.avg_fill_price * n - sum) <= n
                       /\ 2 * (sum - fcall.result.avg_fill_price * n) <= n

\* the order of the first tranche raised and those of the second and third
\* were filled: 12 of the 41 shares are not shorted
C33_FirstTrancheFailed ==
    /\ fcall.fn = "execute_short" /\ fcall.orders = 3
    /\ fcall.entry_price = 24000
    /\ ~fcall.outcomes[1].ok /\ fcall.outcomes[2].ok /\ fcall.outcomes[3].ok
    /\ Get(fcall.result.batches[1], "error", "") # ""
    /\ fcall.result.batches[3].shares = 16
    /\ fcall.result.total_shares_shorted = 28
    /\ fcall.result.avg_fill_price = 24000

\* C34: a run in which execute_short succeeded goes on to node_step8_9 and is
\* eventually followed by exactly one execute_cover attempt, made when
\* monitor_position has returned, whatever its exit reason; after the attempt
\* the run advances to step10, also when the cover failed, and no second
\* attempt is made.
C34_ExactlyOneCover ==
    /\ [](Get(state.short_result, "success", FALSE) =>
            /\ pc \in {"step8_9", "step8_loop", "step9_cover"} => hist.covers = 0
            /\ pc \in {"step10", "END"} => hist.covers = 1
            /\ pc = "END" => hist.records = 1)
    /\ (Get(state.short_result, "success", FALSE) /\ pc = "step8_9")
          ~> (pc = "step10" /\ hist.covers = 1)
    /\ [][hist'.covers # hist.covers =>
            /\ hist.covers = 0 /\ hist'.covers = 1
            /\ pc = "step9_cover" /\ pc' = "step10"
            /\ state.monitor_result.action \in {"stop_loss", "take_profit", "timeout"}
            /\ state'.monitor_result = state.monitor_result]_vars
    /\ [][pc = "step10" => hist'.covers = hist.covers]_vars

\* the broker was unreachable when the stop-loss exit was to be covered: the
\* one attempt failed and the run is at step10
C34_FailedCoverNotRetried ==
    /\ pc = "step10"
    /\ state.short_result.success
    /\ state.monitor_result.action = "stop_loss"
    /\ ~state.cover_result.success
    /\ hist.covers = 1

\* C35: a field of the run's state changes only in the stage that owns it:
\* earnings_list, ticker and pre_earnings_price in step 1, earnings_beat in
\* step 2, surge_result and market_health in step 3, slowdown_result in
\* step 4, verify_result in step 5, approved in step 6, short_result in
\* step 7, monitor_result and cover_result in step 8-9; abort_reason changes
\* only in steps 1 to 7; so no result written by an earlier stage is changed
\* by a later one.
C35_StagesWriteOwnFields ==
    [][LET Changed(f) == state'[f] # state[f] IN
       /\ \A f \in {"earnings_list", "ticker", "pre_earnings_price"} :
            Changed(f) => pc = "step1"
       /\ Changed("earnings_beat") => pc = "step2"
       /\ \A f \in {"surge_result", "market_health"} : Changed(f) => pc = "step3"
       /\ Changed("slowdown_result") => pc = "step4"
       /\ Changed("verify_result") => pc = "step5"
       /\ Changed("approved") => pc \in {"step6", "step6_wait", "step6_scan"}
       /\ Changed("short_result") => pc \in {"step7", "step7_batch"}
       /\ Changed("monitor_result") => pc = "step8_loop"
       /\ Changed("cover_result") => pc = "step9_cover"
       /\ Changed("abort_reason") =>
            pc \in {"step1", "step2", "step3", "step4", "step5", "step6",
                    "step6_wait", "step6_scan", "step7", "step7_batch"}
      ]_vars

\* a run has gone through every stage to END with a trade recorded
C35_AllStagesWrote ==
    /\ pc = "END" /\ hist.records = 1
    /\ state.ticker # "" /\ state.pre_earnings_price > 0
    /\ state.slowdown_result.trigger /\ state.slowdown_result.stop_loss > 0
    /\ state.short_result.total_shares_shorted > 0
    /\ state.monitor_result.action = "take_profit"
    /\ state.cover_result.success
    /\ state.abort_reason = ""

\* C36: after a cover in which all three orders were accepted, the shares
\* bought back equal the total_shares_shorted of the entry: the three floors
\* floor(total_shares x ratio) add up to total_shares.
C36_CoverIsFlat ==
    (/\ fcall.fn = "execute_cover"
     /\ \A i \in 1..3 : fcall.outcomes[i].ok) =>
        /\ fcall.result.success
        /\ fcall.bought = fcall.total_shares

\* C37: when short_in_batches places orders (total_shares >= 3), each of the
\* three orders is for at least 1 share.
C37_NoZeroShareOrder ==
    (fcall.fn = "execute_short" /\ fcall.orders > 0) =>
        \A k \in 1..Len(fcall.events) :
            fcall.events[k].do = "order" => fcall.events[k].shares >= 1

\* C38: the trigger and the stop_loss of detect_slowdown do not depend on
\* the AI's slowing verdict: the same price data, volatility and confidence
\* with the opposite verdict give the same trigger and the same stop_loss,
\* and a judgment with confidence >= 70 triggers whenever the price guard and
\* the hard rules pass, slowing or not.
C38_TriggerIgnoresSlowing ==
    (/\ fcall.fn = "detect_slowdown"
     /\ fcall.reply.kind = "object"
     /\ "slowing" \in DOMAIN fcall.reply.obj) =>
        LET opposite == Object([fcall.reply.obj EXCEPT !.slowing = ~@])
            other    == detect_slowdown(fcall.feed, opposite, fcall.vol, fcall.pre)
            result   == fcall.result
        IN /\ other.trigger = result.trigger
           /\ Get(other, "stop_loss", 0) = Get(result, "stop_loss", 0)
           /\ ("hard_rules" \in DOMAIN result
               /\ result.hard_rules.passed
               /\ fcall.reply.obj.confidence >= 70) => result.trigger

\* the AI answered slowing = false with confidence 75 and the hard rules
\* passed: detect_slowdown triggers and sets a stop_loss
C38_TriggersOnNotSlowing ==
    /\ fcall.fn = "detect_slowdown"
    /\ fcall.reply.kind = "object"
    /\ fcall.reply.obj = [slowing |-> FALSE, confidence |-> 75, reasoning |-> "rising"]
    /\ fcall.result.trigger
    /\ fcall.result.hard_rules.passed
    /\ fcall.result.stop_loss > 0

\* C39: in main_loop current_positions stays the empty list it starts as, so
\* the has_position given to the heartbeat tick and to the idle tick is False
\* in every iteration, also after a run that opened a position.
C39_NoPositionSeen ==
    /\ loop.current_positions = << >>
    /\ ~loop.has_position

\* a run opened a position and returned; in a later iteration, outside market
\* hours, the heartbeat and the idle scheduler have been ticked
C39_IdleTickAfterPosition ==
    /\ loop.opened /\ loop.runs >= 1 /\ loop.active = 0
    /\ loop.branch = "idle" /\ loop.pc = "sleep"
    /\ loop.idle_ticks >= 1 /\ loop.hb_ticks >= 2
    /\ ~loop.has_position

\* C40: on the same answers of the gateways (calendar, earnings judgment,
\* index changes or a failing index feed, prices, slowdown judgment,
\* verification judgment, approval reply) the monolithic graph enters its
\* short-entry node (execute_short) iff the modular graph enters its own
\* (step7).
C40_SameGates ==
    fcall.fn = "build_graph" => (fcall.mono = 7 <=> fcall.modular = 7)

====
